---- MODULE Spec2Model ----
(***************************************************************************)
(* AgentPay core: AgentRegistry, LedgerManager, PaymentEngine,             *)
(* EscrowManager and the internal-credits rail adapter, as one state       *)
(* machine.  Every action is one call of a public method, run to           *)
(* completion; ConcSpec alone runs execute_payment stage by stage for two  *)
(* threads.                                                                *)
(*                                                                         *)
(* Optional[T] values are sequences: <<>> is None, <<v>> is the value v.   *)
(* Strings that may be None use the string "None".                         *)
(***************************************************************************)
EXTENDS Integers, Sequences, FiniteSets, TLC

\* ------------------------------------------------------------------ bounds
MaxAmount == 2          \* amounts passed by callers range over 0..MaxAmount
MaxFunds == 2           \* total of all successful top-ups
MaxIntents == 1         \* PaymentIntent objects the callers construct
MaxEscrows == 2         \* escrows stored by create_escrow
MaxEntries == 5         \* ledger entries appended in one run
MaxTransactions == 2    \* RailTransaction objects stored by the rail adapter

AgentIds == {"A", "B"}
Payers == {"A"}         \* the agents the callers make pay, and whose policy they set
Keys == {"None", "k1"}  \* idempotency keys; "None" is no key
TopUpRef == <<"topup", 1>>      \* reference_id the caller passes to record_top_up
IntentRef(i) == <<"intent", i>>  \* PaymentIntent.intent_id (a uuid4)
EscrowRef(e) == <<"escrow", e>>  \* Escrow.escrow_id (a uuid4)
RailRef(t) == <<"txn", t>>       \* RailTransaction.transaction_id (a uuid4)

None == <<>>
Some(v) == <<v>>
IsNone(x) == x = <<>>
Val(x) == x[1]

\* ------------------------------------------------------------------ models
\* Policy(): every limit None, not paused.
DefaultPolicy ==
    [max_per_transaction |-> None, daily_spend_cap |-> None,
     require_human_approval_over |-> None, allowlist |-> None, paused |-> FALSE]

\* The policies callers give to agents.
Policies ==
    { DefaultPolicy,
      [DefaultPolicy EXCEPT !.paused = TRUE],
      [DefaultPolicy EXCEPT !.allowlist = Some({"A"})],
      [DefaultPolicy EXCEPT !.max_per_transaction = Some(MaxAmount - 1)],
      [DefaultPolicy EXCEPT !.daily_spend_cap = Some(0)] }

\* The lifetime counters of an Agent that record_payment and
\* record_escrow_release add to.
NewTotals == [total_earned |-> 0, total_spent |-> 0]

\* Wallet(): balance 0, hold 0.  Agent(agent_id, policy): empty wallet.
NewAgent(policy) ==
    [registered |-> TRUE, balance |-> 0, hold |-> 0, policy |-> policy] @@ NewTotals

\* What _agents.get(id) returns for an id that is not a key: None.
NoAgent ==
    [registered |-> FALSE, balance |-> 0, hold |-> 0, policy |-> DefaultPolicy]
    @@ NewTotals

Terminal == {"COMPLETED", "FAILED_POLICY", "FAILED_FUNDS", "CANCELLED"}

VARIABLES
    agents,             \* AgentRegistry._agents: agent_id -> Agent (or NoAgent)
    entries,            \* LedgerManager._entries
    intents,            \* the PaymentIntent objects constructed so far, by intent_id
    processed_intents,  \* PaymentEngine._processed_intents: key -> intent_id (0: absent)
    escrows,            \* EscrowManager._escrows, by escrow_id
    result,             \* what the last call returned or raised
    calls,              \* the execute_payment calls in flight: thread -> its locals
    transactions        \* InternalCreditsAdapter._transactions, by transaction_id

vars == <<agents, entries, intents, processed_intents, escrows, result, calls, transactions>>

Wallets(ag) == [a \in AgentIds |-> [balance |-> ag[a].balance, hold |-> ag[a].hold]]

\* ---------------------------------------------------------------- registry
get_agent(ag, id) == ag[id]

Exists(ag, id) == ag[id].registered

\* ------------------------------------------------------------------ policy
is_agent_allowed(policy, agent_id) ==
    IF IsNone(policy.allowlist) THEN TRUE
    ELSE agent_id \in Val(policy.allowlist)

\* is_amount_allowed with a strict comparison.
is_amount_allowed_strict(policy, amount) ==
    IF IsNone(policy.max_per_transaction) THEN TRUE
    ELSE amount < Val(policy.max_per_transaction)

is_amount_allowed(policy, amount) ==
    IF IsNone(policy.max_per_transaction) THEN TRUE
    ELSE amount <= Val(policy.max_per_transaction)

requires_approval(policy, amount) ==
    IF IsNone(policy.require_human_approval_over) THEN FALSE
    ELSE amount > Val(policy.require_human_approval_over)

can_spend(agent, amount) == agent.balance >= amount

can_hold(agent, amount) == agent.balance >= amount

\* can_pay that looks at the funds first.
can_pay_funds_first(agent, amount, recipient_id) ==
    IF ~can_spend(agent, amount) THEN "INSUFFICIENT_FUNDS"
    ELSE IF agent.policy.paused THEN "AGENT_PAUSED"
    ELSE IF ~is_agent_allowed(agent.policy, recipient_id) THEN "RECIPIENT_NOT_ALLOWED"
    ELSE IF ~is_amount_allowed(agent.policy, amount) THEN "AMOUNT_EXCEEDS_LIMIT"
    ELSE "None"

\* can_pay that refuses an amount above daily_spend_cap.
can_pay_with_cap(agent, amount, recipient_id) ==
    IF agent.policy.paused THEN "AGENT_PAUSED"
    ELSE IF ~is_agent_allowed(agent.policy, recipient_id) THEN "RECIPIENT_NOT_ALLOWED"
    ELSE IF ~is_amount_allowed(agent.policy, amount) THEN "AMOUNT_EXCEEDS_LIMIT"
    ELSE IF ~IsNone(agent.policy.daily_spend_cap) /\ amount > Val(agent.policy.daily_spend_cap)
    THEN "AMOUNT_EXCEEDS_LIMIT"
    ELSE IF ~can_spend(agent, amount) THEN "INSUFFICIENT_FUNDS"
    ELSE "None"

\* can_pay that never looks at the balance.
can_pay_without_funds(agent, amount, recipient_id) ==
    IF agent.policy.paused THEN "AGENT_PAUSED"
    ELSE IF ~is_agent_allowed(agent.policy, recipient_id) THEN "RECIPIENT_NOT_ALLOWED"
    ELSE IF ~is_amount_allowed(agent.policy, amount) THEN "AMOUNT_EXCEEDS_LIMIT"
    ELSE "None"

\* Agent.can_pay: the reason of the first failing check, "None" when allowed.
can_pay(agent, amount, recipient_id) ==
    IF agent.policy.paused THEN "AGENT_PAUSED"
    ELSE IF ~is_agent_allowed(agent.policy, recipient_id) THEN "RECIPIENT_NOT_ALLOWED"
    ELSE IF ~is_amount_allowed(agent.policy, amount) THEN "AMOUNT_EXCEEDS_LIMIT"
    ELSE IF ~can_spend(agent, amount) THEN "INSUFFICIENT_FUNDS"
    ELSE "None"

\* ------------------------------------------------------------------ ledger
LedgerEntry(agent_id, delta_amount, entry_type, reference_id, balance_after) ==
    [agent_id |-> agent_id, delta_amount |-> delta_amount, entry_type |-> entry_type,
     reference_id |-> reference_id, balance_after |-> balance_after]

\* A ledger call either raises, leaving what it was given, or returns the
\* mutated registry and the extended entry list.
Raised(ag, en, exc) == [raised |-> TRUE, exc |-> exc, agents |-> ag, entries |-> en]
Done(ag, en) == [raised |-> FALSE, exc |-> "None", agents |-> ag, entries |-> en]

\* record_top_up that puts the new entry at the head of the list.
record_top_up_at_head(ag, en, agent_id, amount, reference_id) ==
    IF amount <= 0 THEN Raised(ag, en, "amount")
    ELSE IF ~Exists(ag, agent_id) THEN Raised(ag, en, "not_found")
    ELSE LET ag1 == [ag EXCEPT ![agent_id].balance = @ + amount]
             entry == LedgerEntry(agent_id, amount, "TOP_UP", reference_id,
                                  ag1[agent_id].balance)
         IN Done(ag1, <<entry>> \o en)

record_top_up(ag, en, agent_id, amount, reference_id) ==
    IF amount <= 0 THEN Raised(ag, en, "amount")
    ELSE IF ~Exists(ag, agent_id) THEN Raised(ag, en, "not_found")
    ELSE LET ag1 == [ag EXCEPT ![agent_id].balance = @ + amount]
             entry == LedgerEntry(agent_id, amount, "TOP_UP", reference_id,
                                  ag1[agent_id].balance)
         IN Done(ag1, Append(en, entry))

\* record_payment that takes the amount from the payer's hold.
record_payment_from_hold(ag, en, from_agent_id, to_agent_id, amount, reference_id) ==
    IF amount <= 0 THEN Raised(ag, en, "amount")
    ELSE IF ~Exists(ag, from_agent_id) THEN Raised(ag, en, "payer_not_found")
    ELSE IF ~Exists(ag, to_agent_id) THEN Raised(ag, en, "payee_not_found")
    ELSE IF ag[from_agent_id].balance < amount THEN Raised(ag, en, "insufficient_funds")
    ELSE LET ag1 == [ag EXCEPT ![from_agent_id].hold = @ - amount]
             ag2 == [ag1 EXCEPT ![to_agent_id].balance = @ + amount]
             debit_entry == LedgerEntry(from_agent_id, -amount, "PAYMENT",
                                        reference_id, ag2[from_agent_id].balance)
             credit_entry == LedgerEntry(to_agent_id, amount, "PAYMENT",
                                         reference_id, ag2[to_agent_id].balance)
         IN Done(ag2, en \o <<debit_entry, credit_entry>>)

\* record_payment that looks up the payee before the payer.
record_payment_payee_first(ag, en, from_agent_id, to_agent_id, amount, reference_id) ==
    IF amount <= 0 THEN Raised(ag, en, "amount")
    ELSE IF ~Exists(ag, to_agent_id) THEN Raised(ag, en, "payee_not_found")
    ELSE IF ~Exists(ag, from_agent_id) THEN Raised(ag, en, "payer_not_found")
    ELSE IF ag[from_agent_id].balance < amount THEN Raised(ag, en, "insufficient_funds")
    ELSE LET ag1 == [ag EXCEPT ![from_agent_id].balance = @ - amount]
             ag2 == [ag1 EXCEPT ![to_agent_id].balance = @ + amount]
             ag3 == [ag2 EXCEPT ![from_agent_id].total_spent = @ + amount]
             ag4 == [ag3 EXCEPT ![to_agent_id].total_earned = @ + amount]
             debit_entry == LedgerEntry(from_agent_id, -amount, "PAYMENT",
                                        reference_id, ag4[from_agent_id].balance)
             credit_entry == LedgerEntry(to_agent_id, amount, "PAYMENT",
                                         reference_id, ag4[to_agent_id].balance)
         IN Done(ag4, en \o <<debit_entry, credit_entry>>)

\* record_payment that debits the payer and never credits the payee.
record_payment_drops_credit(ag, en, from_agent_id, to_agent_id, amount, reference_id) ==
    IF amount <= 0 THEN Raised(ag, en, "amount")
    ELSE IF ~Exists(ag, from_agent_id) THEN Raised(ag, en, "payer_not_found")
    ELSE IF ~Exists(ag, to_agent_id) THEN Raised(ag, en, "payee_not_found")
    ELSE IF ag[from_agent_id].balance < amount THEN Raised(ag, en, "insufficient_funds")
    ELSE LET ag1 == [ag EXCEPT ![from_agent_id].balance = @ - amount]
             ag3 == [ag1 EXCEPT ![from_agent_id].total_spent = @ + amount]
             ag4 == [ag3 EXCEPT ![to_agent_id].total_earned = @ + amount]
             debit_entry == LedgerEntry(from_agent_id, -amount, "PAYMENT",
                                        reference_id, ag4[from_agent_id].balance)
             credit_entry == LedgerEntry(to_agent_id, amount, "PAYMENT",
                                         reference_id, ag4[to_agent_id].balance)
         IN Done(ag4, en \o <<debit_entry, credit_entry>>)

\* record_payment that appends the debit entry only.
record_payment_debit_only(ag, en, from_agent_id, to_agent_id, amount, reference_id) ==
    IF amount <= 0 THEN Raised(ag, en, "amount")
    ELSE IF ~Exists(ag, from_agent_id) THEN Raised(ag, en, "payer_not_found")
    ELSE IF ~Exists(ag, to_agent_id) THEN Raised(ag, en, "payee_not_found")
    ELSE IF ag[from_agent_id].balance < amount THEN Raised(ag, en, "insufficient_funds")
    ELSE LET ag1 == [ag EXCEPT ![from_agent_id].balance = @ - amount]
             ag2 == [ag1 EXCEPT ![to_agent_id].balance = @ + amount]
             debit_entry == LedgerEntry(from_agent_id, -amount, "PAYMENT",
                                        reference_id, ag2[from_agent_id].balance)
         IN Done(ag2, Append(en, debit_entry))

\* record_payment without its own balance check.
record_payment_unchecked(ag, en, from_agent_id, to_agent_id, amount, reference_id) ==
    IF amount <= 0 THEN Raised(ag, en, "amount")
    ELSE IF ~Exists(ag, from_agent_id) THEN Raised(ag, en, "payer_not_found")
    ELSE IF ~Exists(ag, to_agent_id) THEN Raised(ag, en, "payee_not_found")
    ELSE LET ag1 == [ag EXCEPT ![from_agent_id].balance = @ - amount]
             ag2 == [ag1 EXCEPT ![to_agent_id].balance = @ + amount]
             ag3 == [ag2 EXCEPT ![from_agent_id].total_spent = @ + amount]
             ag4 == [ag3 EXCEPT ![to_agent_id].total_earned = @ + amount]
             debit_entry == LedgerEntry(from_agent_id, -amount, "PAYMENT",
                                        reference_id, ag4[from_agent_id].balance)
             credit_entry == LedgerEntry(to_agent_id, amount, "PAYMENT",
                                         reference_id, ag4[to_agent_id].balance)
         IN Done(ag4, en \o <<debit_entry, credit_entry>>)

record_payment(ag, en, from_agent_id, to_agent_id, amount, reference_id) ==
    IF amount <= 0 THEN Raised(ag, en, "amount")
    ELSE IF ~Exists(ag, from_agent_id) THEN Raised(ag, en, "payer_not_found")
    ELSE IF ~Exists(ag, to_agent_id) THEN Raised(ag, en, "payee_not_found")
    ELSE IF ag[from_agent_id].balance < amount THEN Raised(ag, en, "insufficient_funds")
    ELSE LET ag1 == [ag EXCEPT ![from_agent_id].balance = @ - amount]
             ag2 == [ag1 EXCEPT ![to_agent_id].balance = @ + amount]
             ag3 == [ag2 EXCEPT ![from_agent_id].total_spent = @ + amount]
             ag4 == [ag3 EXCEPT ![to_agent_id].total_earned = @ + amount]
             debit_entry == LedgerEntry(from_agent_id, -amount, "PAYMENT",
                                        reference_id, ag4[from_agent_id].balance)
             credit_entry == LedgerEntry(to_agent_id, amount, "PAYMENT",
                                         reference_id, ag4[to_agent_id].balance)
         IN Done(ag4, en \o <<debit_entry, credit_entry>>)

\* record_escrow_lock that moves the funds before it checks the balance.
record_escrow_lock_moves_first(ag, en, agent_id, amount, reference_id) ==
    IF amount <= 0 THEN Raised(ag, en, "amount")
    ELSE IF ~Exists(ag, agent_id) THEN Raised(ag, en, "not_found")
    ELSE LET ag1 == [ag EXCEPT ![agent_id].balance = @ - amount,
                               ![agent_id].hold = @ + amount]
             entry == LedgerEntry(agent_id, -amount, "ESCROW_LOCK", reference_id,
                                  ag1[agent_id].balance)
         IN IF ag[agent_id].balance < amount THEN Raised(ag1, en, "insufficient_balance")
            ELSE Done(ag1, Append(en, entry))

\* record_escrow_lock that debits the balance without raising the hold.
record_escrow_lock_debits_only(ag, en, agent_id, amount, reference_id) ==
    IF amount <= 0 THEN Raised(ag, en, "amount")
    ELSE IF ~Exists(ag, agent_id) THEN Raised(ag, en, "not_found")
    ELSE IF ag[agent_id].balance < amount THEN Raised(ag, en, "insufficient_balance")
    ELSE LET ag1 == [ag EXCEPT ![agent_id].balance = @ - amount]
             entry == LedgerEntry(agent_id, -amount, "ESCROW_LOCK", reference_id,
                                  ag1[agent_id].balance)
         IN Done(ag1, Append(en, entry))

record_escrow_lock(ag, en, agent_id, amount, reference_id) ==
    IF amount <= 0 THEN Raised(ag, en, "amount")
    ELSE IF ~Exists(ag, agent_id) THEN Raised(ag, en, "not_found")
    ELSE IF ag[agent_id].balance < amount THEN Raised(ag, en, "insufficient_balance")
    ELSE LET ag1 == [ag EXCEPT ![agent_id].balance = @ - amount,
                               ![agent_id].hold = @ + amount]
             entry == LedgerEntry(agent_id, -amount, "ESCROW_LOCK", reference_id,
                                  ag1[agent_id].balance)
         IN Done(ag1, Append(en, entry))

\* record_escrow_release that appends the payee's entry only.
record_escrow_release_one_entry(ag, en, from_agent_id, to_agent_id, amount, reference_id) ==
    IF amount <= 0 THEN Raised(ag, en, "amount")
    ELSE IF ~Exists(ag, from_agent_id) THEN Raised(ag, en, "payer_not_found")
    ELSE IF ~Exists(ag, to_agent_id) THEN Raised(ag, en, "payee_not_found")
    ELSE IF ag[from_agent_id].hold < amount THEN Raised(ag, en, "insufficient_hold")
    ELSE LET ag1 == [ag EXCEPT ![from_agent_id].hold = @ - amount]
             ag2 == [ag1 EXCEPT ![to_agent_id].balance = @ + amount]
             ag3 == [ag2 EXCEPT ![from_agent_id].total_spent = @ + amount]
             ag4 == [ag3 EXCEPT ![to_agent_id].total_earned = @ + amount]
             payee_entry == LedgerEntry(to_agent_id, amount, "ESCROW_RELEASE",
                                        reference_id, ag4[to_agent_id].balance)
         IN Done(ag4, Append(en, payee_entry))

\* record_escrow_release that takes the amount from the payer's balance.
record_escrow_release_from_balance(ag, en, from_agent_id, to_agent_id, amount, reference_id) ==
    IF amount <= 0 THEN Raised(ag, en, "amount")
    ELSE IF ~Exists(ag, from_agent_id) THEN Raised(ag, en, "payer_not_found")
    ELSE IF ~Exists(ag, to_agent_id) THEN Raised(ag, en, "payee_not_found")
    ELSE IF ag[from_agent_id].hold < amount THEN Raised(ag, en, "insufficient_hold")
    ELSE LET ag1 == [ag EXCEPT ![from_agent_id].balance = @ - amount]
             ag2 == [ag1 EXCEPT ![to_agent_id].balance = @ + amount]
             payer_entry == LedgerEntry(from_agent_id, -amount, "ESCROW_RELEASE",
                                        reference_id, ag2[from_agent_id].balance)
             payee_entry == LedgerEntry(to_agent_id, amount, "ESCROW_RELEASE",
                                        reference_id, ag2[to_agent_id].balance)
         IN Done(ag2, en \o <<payer_entry, payee_entry>>)

\* record_escrow_release that credits the payee and leaves the payer's hold.
record_escrow_release_keeps_hold(ag, en, from_agent_id, to_agent_id, amount, reference_id) ==
    IF amount <= 0 THEN Raised(ag, en, "amount")
    ELSE IF ~Exists(ag, from_agent_id) THEN Raised(ag, en, "payer_not_found")
    ELSE IF ~Exists(ag, to_agent_id) THEN Raised(ag, en, "payee_not_found")
    ELSE IF ag[from_agent_id].hold < amount THEN Raised(ag, en, "insufficient_hold")
    ELSE LET ag2 == [ag EXCEPT ![to_agent_id].balance = @ + amount]
             payer_entry == LedgerEntry(from_agent_id, -amount, "ESCROW_RELEASE",
                                        reference_id, ag2[from_agent_id].balance)
             payee_entry == LedgerEntry(to_agent_id, amount, "ESCROW_RELEASE",
                                        reference_id, ag2[to_agent_id].balance)
         IN Done(ag2, en \o <<payer_entry, payee_entry>>)

\* record_escrow_release that looks the recipient up after taking the hold.
record_escrow_release_late_lookup(ag, en, from_agent_id, to_agent_id, amount, reference_id) ==
    IF amount <= 0 THEN Raised(ag, en, "amount")
    ELSE IF ~Exists(ag, from_agent_id) THEN Raised(ag, en, "payer_not_found")
    ELSE IF ag[from_agent_id].hold < amount THEN Raised(ag, en, "insufficient_hold")
    ELSE LET ag1 == [ag EXCEPT ![from_agent_id].hold = @ - amount]
             ag2 == [ag1 EXCEPT ![to_agent_id].balance = @ + amount]
             ag3 == [ag2 EXCEPT ![from_agent_id].total_spent = @ + amount]
             ag4 == [ag3 EXCEPT ![to_agent_id].total_earned = @ + amount]
             payer_entry == LedgerEntry(from_agent_id, -amount, "ESCROW_RELEASE",
                                        reference_id, ag4[from_agent_id].balance)
             payee_entry == LedgerEntry(to_agent_id, amount, "ESCROW_RELEASE",
                                        reference_id, ag4[to_agent_id].balance)
         IN IF ~Exists(ag, to_agent_id) THEN Raised(ag1, en, "payee_not_found")
            ELSE Done(ag4, en \o <<payer_entry, payee_entry>>)

record_escrow_release(ag, en, from_agent_id, to_agent_id, amount, reference_id) ==
    IF amount <= 0 THEN Raised(ag, en, "amount")
    ELSE IF ~Exists(ag, from_agent_id) THEN Raised(ag, en, "payer_not_found")
    ELSE IF ~Exists(ag, to_agent_id) THEN Raised(ag, en, "payee_not_found")
    ELSE IF ag[from_agent_id].hold < amount THEN Raised(ag, en, "insufficient_hold")
    ELSE LET ag1 == [ag EXCEPT ![from_agent_id].hold = @ - amount]
             ag2 == [ag1 EXCEPT ![to_agent_id].balance = @ + amount]
             ag3 == [ag2 EXCEPT ![from_agent_id].total_spent = @ + amount]
             ag4 == [ag3 EXCEPT ![to_agent_id].total_earned = @ + amount]
             payer_entry == LedgerEntry(from_agent_id, -amount, "ESCROW_RELEASE",
                                        reference_id, ag4[from_agent_id].balance)
             payee_entry == LedgerEntry(to_agent_id, amount, "ESCROW_RELEASE",
                                        reference_id, ag4[to_agent_id].balance)
         IN Done(ag4, en \o <<payer_entry, payee_entry>>)

\* record_escrow_cancel that credits the balance and leaves the hold.
record_escrow_cancel_keeps_hold(ag, en, agent_id, amount, reference_id) ==
    IF amount <= 0 THEN Raised(ag, en, "amount")
    ELSE IF ~Exists(ag, agent_id) THEN Raised(ag, en, "not_found")
    ELSE IF ag[agent_id].hold < amount THEN Raised(ag, en, "insufficient_hold")
    ELSE LET ag1 == [ag EXCEPT ![agent_id].balance = @ + amount]
             entry == LedgerEntry(agent_id, amount, "ESCROW_CANCEL", reference_id,
                                  ag1[agent_id].balance)
         IN Done(ag1, Append(en, entry))

\* record_escrow_cancel that empties the payer's hold.
record_escrow_cancel_whole_hold(ag, en, agent_id, amount, reference_id) ==
    IF amount <= 0 THEN Raised(ag, en, "amount")
    ELSE IF ~Exists(ag, agent_id) THEN Raised(ag, en, "not_found")
    ELSE IF ag[agent_id].hold < amount THEN Raised(ag, en, "insufficient_hold")
    ELSE LET ag1 == [ag EXCEPT ![agent_id].balance = @ + ag[agent_id].hold,
                               ![agent_id].hold = 0]
             entry == LedgerEntry(agent_id, amount, "ESCROW_CANCEL", reference_id,
                                  ag1[agent_id].balance)
         IN Done(ag1, Append(en, entry))

record_escrow_cancel(ag, en, agent_id, amount, reference_id) ==
    IF amount <= 0 THEN Raised(ag, en, "amount")
    ELSE IF ~Exists(ag, agent_id) THEN Raised(ag, en, "not_found")
    ELSE IF ag[agent_id].hold < amount THEN Raised(ag, en, "insufficient_hold")
    ELSE LET ag1 == [ag EXCEPT ![agent_id].hold = @ - amount,
                               ![agent_id].balance = @ + amount]
             entry == LedgerEntry(agent_id, amount, "ESCROW_CANCEL", reference_id,
                                  ag1[agent_id].balance)
         IN Done(ag1, Append(en, entry))

get_entries_by_reference(en, reference_id) ==
    SelectSeq(en, LAMBDA e : e.reference_id = reference_id)

RECURSIVE SumDeltas(_)
SumDeltas(s) == IF s = <<>> THEN 0 ELSE Head(s).delta_amount + SumDeltas(Tail(s))

EntryTypes(s) == {s[i].entry_type : i \in DOMAIN s}

verify_double_entry(en, reference_id) ==
    LET found == get_entries_by_reference(en, reference_id)
    IN IF found = <<>> THEN TRUE
       ELSE IF "TOP_UP" \in EntryTypes(found) \/ "WITHDRAWAL" \in EntryTypes(found)
            THEN TRUE
       ELSE SumDeltas(found) = 0

\* ----------------------------------------------------------------- payment
\* PaymentIntent.mark_failed: the status a failure reason is filed under.
\* The reasons the engine passes are the strings of FailureReasons; the
\* substring tests of the code are tabulated for them.
FailureReasons ==
    {"PAYER_NOT_FOUND", "PAYEE_NOT_FOUND", "AGENT_PAUSED", "RECIPIENT_NOT_ALLOWED",
     "AMOUNT_EXCEEDS_LIMIT", "INSUFFICIENT_FUNDS", "EXECUTION_ERROR"}

\* Reasons a caller of mark_failed may pass besides the engine's codes
\* ("Custom application-specific error codes").
CustomReasons == {"REFUNDS_NOT_ALLOWED", "FUNDS_ON_HOLD", "POLICY_VIOLATION", "TIMEOUT"}

\* The words among POLICY, ALLOWED, PAUSED, FUNDS that occur in a reason.
Words(reason) ==
    CASE reason = "RECIPIENT_NOT_ALLOWED" -> {"ALLOWED"}
      [] reason = "AGENT_PAUSED" -> {"PAUSED"}
      [] reason = "INSUFFICIENT_FUNDS" -> {"FUNDS"}
      [] reason = "REFUNDS_NOT_ALLOWED" -> {"FUNDS", "ALLOWED"}
      [] reason = "FUNDS_ON_HOLD" -> {"FUNDS"}
      [] reason = "POLICY_VIOLATION" -> {"POLICY"}
      [] OTHER -> {}

\* word in reason
Contains(reason, word) == word \in Words(reason)

mark_failed(intent, reason) ==
    LET status == IF Contains(reason, "POLICY") \/ Contains(reason, "ALLOWED")
                     \/ Contains(reason, "PAUSED")
                  THEN "FAILED_POLICY"
                  ELSE IF Contains(reason, "FUNDS") THEN "FAILED_FUNDS"
                  ELSE "FAILED_POLICY"
    IN [intent EXCEPT !.status = status, !.failure_reason = reason]

\* mark_completed that leaves the status as it is.
mark_completed_keeps_status(intent) == intent

mark_completed(intent) == [intent EXCEPT !.status = "COMPLETED"]

\* PaymentIntent(from, to, amount, idempotency_key): amount > 0 is validated
\* by the constructor, the status starts at REQUIRES_CONFIRMATION.
NewIntent(from_agent_id, to_agent_id, amount, key) ==
    [from_agent_id |-> from_agent_id, to_agent_id |-> to_agent_id, amount |-> amount,
     status |-> "REQUIRES_CONFIRMATION", idempotency_key |-> key,
     failure_reason |-> "None"]

\* What a call gave back: the operation, whether it raised, the success flag
\* and error_code of the result object, whether its error_message says
\* "Already processed", and the id of the intent or escrow in it (0: an object
\* that is in no store).
Result(op, raised, success, error_code, already_processed, id) ==
    [op |-> op, raised |-> raised, success |-> success, error_code |-> error_code,
     already_processed |-> already_processed, id |-> id]

\* _failed_result that caches nothing.
failed_result_uncached(its, cache, i, error_code) ==
    [intents |-> its, cache |-> cache, success |-> FALSE, error_code |-> error_code,
     already_processed |-> FALSE, id |-> i]

\* PaymentEngine._failed_result: cache the intent under its key, if it has one.
failed_result(its, cache, i, error_code) ==
    LET key == its[i].idempotency_key
    IN [intents |-> its,
        cache |-> IF key # "None" THEN [cache EXCEPT ![key] = i] ELSE cache,
        success |-> FALSE, error_code |-> error_code, already_processed |-> FALSE,
        id |-> i]

\* An idempotency check that never finds the key.
cached_intent_never(cache, key) == 0

\* The idempotency check: the intent cached under the key, 0 when the intent has
\* no key or the key is not cached.
cached_intent(cache, key) == IF key # "None" THEN cache[key] ELSE 0

\* A pre-execution failure that is reported after the ledger was asked to move
\* the funds.
reject_after_transfer(ag, en, its, cache, i, reason) ==
    LET rec == record_payment(ag, en, its[i].from_agent_id, its[i].to_agent_id,
                              its[i].amount, IntentRef(i))
    IN [agents |-> rec.agents, entries |-> rec.entries]
       @@ failed_result([its EXCEPT ![i] = mark_failed(@, reason)], cache, i, reason)

\* A pre-execution failure: mark the intent failed and return the failed result;
\* the ledger is not called.
reject(ag, en, its, cache, i, reason) ==
    [agents |-> ag, entries |-> en]
    @@ failed_result([its EXCEPT ![i] = mark_failed(@, reason)], cache, i, reason)

\* PaymentEngine.execute_payment on the intent object i.
execute_payment(ag, en, its, cache, i) ==
    LET intent == its[i]
        key == intent.idempotency_key
        existing == cached_intent(cache, key)
    IN  IF existing # 0
        THEN [agents |-> ag, entries |-> en, intents |-> its, cache |-> cache,
              success |-> its[existing].status = "COMPLETED",
              error_code |-> its[existing].failure_reason,
              already_processed |-> TRUE, id |-> existing]
        ELSE IF ~Exists(ag, intent.from_agent_id)
        THEN reject(ag, en, its, cache, i, "PAYER_NOT_FOUND")
        ELSE IF ~Exists(ag, intent.to_agent_id)
        THEN reject(ag, en, its, cache, i, "PAYEE_NOT_FOUND")
        ELSE LET reason == can_pay(get_agent(ag, intent.from_agent_id), intent.amount,
                                   intent.to_agent_id)
                 rec == record_payment(ag, en, intent.from_agent_id, intent.to_agent_id,
                                       intent.amount, IntentRef(i))
             IN IF reason # "None"
                THEN reject(ag, en, its, cache, i, reason)
                ELSE IF rec.raised
                THEN [agents |-> rec.agents, entries |-> rec.entries]
                     @@ failed_result([its EXCEPT ![i] = mark_failed(@, "EXECUTION_ERROR")],
                                      cache, i, "EXECUTION_ERROR")
                ELSE [agents |-> rec.agents, entries |-> rec.entries,
                      intents |-> [its EXCEPT ![i] = mark_completed(@)],
                      cache |-> IF key # "None" THEN [cache EXCEPT ![key] = i] ELSE cache,
                      success |-> TRUE, error_code |-> "None",
                      already_processed |-> FALSE, id |-> i]

\* PaymentEngine.get_payment_status: the intent with this id among the values of
\* the idempotency cache, 0 (None) when no cached intent has the id.
get_payment_status(cache, intent_id) ==
    IF \E key \in DOMAIN cache : cache[key] = intent_id THEN intent_id ELSE 0

\* ------------------------------------------------------------------ escrow
\* Escrow(from, to, amount): the constructor validates amount > 0.
EscrowInvalid(amount) == ~(amount > 0)

\* `opened` is a history field no operation reads: the wallets as they were
\* when the create_escrow call that stored the escrow started.
NewEscrow(from_agent_id, to_agent_id, amount, opened) ==
    [from_agent_id |-> from_agent_id, to_agent_id |-> to_agent_id, amount |-> amount,
     status |-> "LOCKED", opened |-> opened]

\* A store whose ids collide: the new escrow replaces the last one stored.
store_colliding(es, escrow) ==
    IF es = <<>> THEN Append(es, escrow) ELSE [es EXCEPT ![Len(es)] = escrow]

\* self._escrows[escrow.escrow_id] = escrow, under a fresh escrow_id
store(es, escrow) == Append(es, escrow)

EscrowOut(ag, en, es, raised, success, error_code, id) ==
    [agents |-> ag, entries |-> en, escrows |-> es, raised |-> raised,
     success |-> success, error_code |-> error_code, id |-> id]

\* create_escrow that stores the escrow before it looks at the balance.
create_escrow_stores_first(ag, en, es, from_agent_id, to_agent_id, amount) ==
    LET id == Len(es) + 1
        rec == record_escrow_lock(ag, en, from_agent_id, amount, EscrowRef(id))
        invalid == EscrowOut(ag, en, es, TRUE, FALSE, "ValidationError", 0)
        stored == store(es, NewEscrow(from_agent_id, to_agent_id, amount, Wallets(ag)))
    IN  IF ~Exists(ag, from_agent_id)
        THEN IF EscrowInvalid(amount) THEN invalid
             ELSE EscrowOut(ag, en, es, FALSE, FALSE, "PAYER_NOT_FOUND", 0)
        ELSE IF ~Exists(ag, to_agent_id)
        THEN IF EscrowInvalid(amount) THEN invalid
             ELSE EscrowOut(ag, en, es, FALSE, FALSE, "RECIPIENT_NOT_FOUND", 0)
        ELSE IF EscrowInvalid(amount) THEN invalid
        ELSE IF ~can_hold(get_agent(ag, from_agent_id), amount)
        THEN EscrowOut(ag, en, stored, FALSE, FALSE, "INSUFFICIENT_FUNDS", id)
        ELSE IF rec.raised
        THEN EscrowOut(rec.agents, rec.entries, es, FALSE, FALSE, "EXECUTION_ERROR", 0)
        ELSE EscrowOut(rec.agents, rec.entries, stored, FALSE, TRUE, "None", id)

create_escrow(ag, en, es, from_agent_id, to_agent_id, amount) ==
    LET id == Len(es) + 1
        rec == record_escrow_lock(ag, en, from_agent_id, amount, EscrowRef(id))
        invalid == EscrowOut(ag, en, es, TRUE, FALSE, "ValidationError", 0)
    IN  IF ~Exists(ag, from_agent_id)
        THEN IF EscrowInvalid(amount) THEN invalid
             ELSE EscrowOut(ag, en, es, FALSE, FALSE, "PAYER_NOT_FOUND", 0)
        ELSE IF ~Exists(ag, to_agent_id)
        THEN IF EscrowInvalid(amount) THEN invalid
             ELSE EscrowOut(ag, en, es, FALSE, FALSE, "RECIPIENT_NOT_FOUND", 0)
        ELSE IF ~can_hold(get_agent(ag, from_agent_id), amount)
        THEN IF EscrowInvalid(amount) THEN invalid
             ELSE EscrowOut(ag, en, es, FALSE, FALSE, "INSUFFICIENT_FUNDS", 0)
        ELSE IF EscrowInvalid(amount) THEN invalid
        ELSE IF rec.raised
        THEN EscrowOut(rec.agents, rec.entries, es, FALSE, FALSE, "EXECUTION_ERROR", 0)
        ELSE EscrowOut(rec.agents, rec.entries,
                       store(es, NewEscrow(from_agent_id, to_agent_id, amount, Wallets(ag))),
                       FALSE, TRUE, "None", id)

\* The dummy Escrow(amount=0) built for an unknown id fails the constructor's
\* amount > 0 validation, so the call raises before any result is returned.
release_escrow(ag, en, es, escrow_id) ==
    IF escrow_id \notin DOMAIN es
    THEN IF EscrowInvalid(0)
         THEN EscrowOut(ag, en, es, TRUE, FALSE, "ValidationError", 0)
         ELSE EscrowOut(ag, en, es, FALSE, FALSE, "ESCROW_NOT_FOUND", 0)
    ELSE IF es[escrow_id].status # "LOCKED"
    THEN EscrowOut(ag, en, es, FALSE, FALSE, "ESCROW_NOT_LOCKED", escrow_id)
    ELSE LET escrow == es[escrow_id]
             rec == record_escrow_release(ag, en, escrow.from_agent_id, escrow.to_agent_id,
                                          escrow.amount, EscrowRef(escrow_id))
         IN IF rec.raised
            THEN EscrowOut(rec.agents, rec.entries, es, FALSE, FALSE, "EXECUTION_ERROR",
                           escrow_id)
            ELSE EscrowOut(rec.agents, rec.entries,
                           [es EXCEPT ![escrow_id].status = "RELEASED"],
                           FALSE, TRUE, "None", escrow_id)

\* cancel_escrow that returns the funds and never updates the escrow's status.
cancel_escrow_leaves_locked(ag, en, es, escrow_id) ==
    IF escrow_id \notin DOMAIN es
    THEN IF EscrowInvalid(0)
         THEN EscrowOut(ag, en, es, TRUE, FALSE, "ValidationError", 0)
         ELSE EscrowOut(ag, en, es, FALSE, FALSE, "ESCROW_NOT_FOUND", 0)
    ELSE IF es[escrow_id].status # "LOCKED"
    THEN EscrowOut(ag, en, es, FALSE, FALSE, "ESCROW_NOT_LOCKED", escrow_id)
    ELSE LET escrow == es[escrow_id]
             rec == record_escrow_cancel(ag, en, escrow.from_agent_id, escrow.amount,
                                         EscrowRef(escrow_id))
         IN IF rec.raised
            THEN EscrowOut(rec.agents, rec.entries, es, FALSE, FALSE, "EXECUTION_ERROR",
                           escrow_id)
            ELSE EscrowOut(rec.agents, rec.entries, es, FALSE, TRUE, "None", escrow_id)

cancel_escrow(ag, en, es, escrow_id) ==
    IF escrow_id \notin DOMAIN es
    THEN IF EscrowInvalid(0)
         THEN EscrowOut(ag, en, es, TRUE, FALSE, "ValidationError", 0)
         ELSE EscrowOut(ag, en, es, FALSE, FALSE, "ESCROW_NOT_FOUND", 0)
    ELSE IF es[escrow_id].status # "LOCKED"
    THEN EscrowOut(ag, en, es, FALSE, FALSE, "ESCROW_NOT_LOCKED", escrow_id)
    ELSE LET escrow == es[escrow_id]
             rec == record_escrow_cancel(ag, en, escrow.from_agent_id, escrow.amount,
                                         EscrowRef(escrow_id))
         IN IF rec.raised
            THEN EscrowOut(rec.agents, rec.entries, es, FALSE, FALSE, "EXECUTION_ERROR",
                           escrow_id)
            ELSE EscrowOut(rec.agents, rec.entries,
                           [es EXCEPT ![escrow_id].status = "CANCELLED"],
                           FALSE, TRUE, "None", escrow_id)

\* ------------------------------------------------------------- the machine
NoResult == Result("init", FALSE, FALSE, "None", FALSE, 0)

Init ==
    /\ agents = [a \in AgentIds |-> NoAgent]
    /\ entries = <<>>
    /\ intents = <<>>
    /\ processed_intents = [k \in Keys \ {"None"} |-> 0]
    /\ escrows = <<>>
    /\ result = NoResult
    /\ calls = <<>>
    /\ transactions = <<>>

RECURSIVE TotalTopUps(_)
TotalTopUps(s) ==
    IF s = <<>> THEN 0
    ELSE (IF Head(s).entry_type = "TOP_UP" THEN Head(s).delta_amount ELSE 0)
         + TotalTopUps(Tail(s))

\* AgentRegistry.register_agent(Agent(agent_id=id))
RegisterAgent(id) ==
    /\ IF Exists(agents, id)
       THEN /\ result' = Result("register_agent", TRUE, FALSE, "ValueError", FALSE, 0)
            /\ UNCHANGED agents
       ELSE /\ agents' = [agents EXCEPT ![id] = NewAgent(DefaultPolicy)]
            /\ result' = Result("register_agent", FALSE, TRUE, "None", FALSE, 0)
    /\ UNCHANGED <<entries, intents, processed_intents, escrows, calls, transactions>>

\* agent = get_agent(id); agent.policy = policy; AgentRegistry.update_agent(agent)
\* (pausing and unpausing an agent are the cases policy.paused = TRUE, FALSE)
SetPolicy(id, policy) ==
    /\ IF ~Exists(agents, id)
       THEN /\ result' = Result("set_policy", TRUE, FALSE, "ValueError", FALSE, 0)
            /\ UNCHANGED agents
       ELSE /\ agents' = [agents EXCEPT ![id].policy = policy]
            /\ result' = Result("set_policy", FALSE, TRUE, "None", FALSE, 0)
    /\ UNCHANGED <<entries, intents, processed_intents, escrows, calls, transactions>>

\* LedgerManager.record_top_up(id, amount, TopUpRef)
RecordTopUp(id, amount) ==
    LET out == record_top_up(agents, entries, id, amount, TopUpRef)
    IN /\ Len(out.entries) <= MaxEntries
       /\ TotalTopUps(out.entries) <= MaxFunds
       /\ agents' = out.agents
       /\ entries' = out.entries
       /\ result' = Result("record_top_up", out.raised, ~out.raised, out.exc, FALSE, 0)
       /\ UNCHANGED <<intents, processed_intents, escrows, calls, transactions>>

\* execute_payment(PaymentIntent(from_agent_id, to_agent_id, amount, key)): a new
\* intent object is constructed and submitted.  On a cache hit the engine never
\* touches or keeps the new object, so it is dropped.
Pay(from_agent_id, to_agent_id, amount, key) ==
    LET i == Len(intents) + 1
        its == Append(intents, NewIntent(from_agent_id, to_agent_id, amount, key))
        out == execute_payment(agents, entries, its, processed_intents, i)
    IN /\ Len(out.entries) <= MaxEntries
       /\ out.id = i => i <= MaxIntents
       /\ agents' = out.agents
       /\ entries' = out.entries
       /\ intents' = IF out.id = i THEN out.intents ELSE intents
       /\ processed_intents' = out.cache
       /\ result' = Result("execute_payment", FALSE, out.success, out.error_code,
                          out.already_processed, out.id)
       /\ UNCHANGED <<escrows, calls, transactions>>

\* execute_payment(intents[i]): an intent object submitted before is submitted again
ExecutePayment(i) ==
    LET out == execute_payment(agents, entries, intents, processed_intents, i)
    IN /\ Len(out.entries) <= MaxEntries
       /\ agents' = out.agents
       /\ entries' = out.entries
       /\ intents' = out.intents
       /\ processed_intents' = out.cache
       /\ result' = Result("execute_payment", FALSE, out.success, out.error_code,
                          out.already_processed, out.id)
       /\ UNCHANGED <<escrows, calls, transactions>>

\* EscrowManager.create_escrow(from_agent_id, to_agent_id, amount)
CreateEscrow(from_agent_id, to_agent_id, amount) ==
    LET out == create_escrow(agents, entries, escrows, from_agent_id, to_agent_id, amount)
    IN /\ Len(out.escrows) <= MaxEscrows
       /\ Len(out.entries) <= MaxEntries
       /\ agents' = out.agents
       /\ entries' = out.entries
       /\ escrows' = out.escrows
       /\ result' = Result("create_escrow", out.raised, out.success, out.error_code,
                          FALSE, out.id)
       /\ UNCHANGED <<intents, processed_intents, calls, transactions>>

\* EscrowManager.release_escrow(escrow_id)
ReleaseEscrow(escrow_id) ==
    LET out == release_escrow(agents, entries, escrows, escrow_id)
    IN /\ Len(out.entries) <= MaxEntries
       /\ agents' = out.agents
       /\ entries' = out.entries
       /\ escrows' = out.escrows
       /\ result' = Result("release_escrow", out.raised, out.success, out.error_code,
                          FALSE, out.id)
       /\ UNCHANGED <<intents, processed_intents, calls, transactions>>

\* EscrowManager.cancel_escrow(escrow_id)
CancelEscrow(escrow_id) ==
    LET out == cancel_escrow(agents, entries, escrows, escrow_id)
    IN /\ Len(out.entries) <= MaxEntries
       /\ agents' = out.agents
       /\ entries' = out.entries
       /\ escrows' = out.escrows
       /\ result' = Result("cancel_escrow", out.raised, out.success, out.error_code,
                          FALSE, out.id)
       /\ UNCHANGED <<intents, processed_intents, calls, transactions>>

Next ==
    \/ \E id \in AgentIds : RegisterAgent(id)
    \/ \E id \in Payers, policy \in Policies : SetPolicy(id, policy)
    \/ \E id \in AgentIds, amount \in 0..MaxAmount : RecordTopUp(id, amount)
    \/ \E f \in Payers, t \in AgentIds, amount \in 1..MaxAmount, key \in Keys :
          Pay(f, t, amount, key)
    \/ \E i \in DOMAIN intents : ExecutePayment(i)
    \/ \E f \in Payers : \E t \in AgentIds \ {f}, amount \in 0..MaxAmount :
          CreateEscrow(f, t, amount)
    \/ \E e \in 1..(MaxEscrows + 1) : ReleaseEscrow(e)
    \/ \E e \in 1..(MaxEscrows + 1) : CancelEscrow(e)

Spec == Init /\ [][Next]_vars

\* ------------------------------------------------- the ledger on its own
\* LedgerManager called directly, as the tests and the rail adapter do; the
\* caller passes LedgerRef as reference_id.
LedgerRef == <<"ref", 1>>

LedgerResult(op, out) == Result(op, out.raised, ~out.raised, out.exc, FALSE, 0)

LedgerCall(op, out) ==
    /\ Len(out.entries) <= MaxEntries
    /\ TotalTopUps(out.entries) <= MaxFunds
    /\ agents' = out.agents
    /\ entries' = out.entries
    /\ result' = LedgerResult(op, out)
    /\ UNCHANGED <<intents, processed_intents, escrows, calls, transactions>>

LedgerTopUp(id, amount) ==
    LedgerCall("record_top_up", record_top_up(agents, entries, id, amount, TopUpRef))

LedgerPayment(from_agent_id, to_agent_id, amount) ==
    LedgerCall("record_payment",
               record_payment(agents, entries, from_agent_id, to_agent_id, amount,
                              LedgerRef))

LedgerEscrowLock(id, amount) ==
    LedgerCall("record_escrow_lock",
               record_escrow_lock(agents, entries, id, amount, LedgerRef))

LedgerEscrowRelease(from_agent_id, to_agent_id, amount) ==
    LedgerCall("record_escrow_release",
               record_escrow_release(agents, entries, from_agent_id, to_agent_id, amount,
                                     LedgerRef))

LedgerEscrowCancel(id, amount) ==
    LedgerCall("record_escrow_cancel",
               record_escrow_cancel(agents, entries, id, amount, LedgerRef))

LedgerNext ==
    \/ \E id \in AgentIds : RegisterAgent(id)
    \/ \E id \in AgentIds, amount \in 0..MaxAmount : LedgerTopUp(id, amount)
    \/ \E f \in AgentIds, t \in AgentIds, amount \in 0..MaxAmount : LedgerPayment(f, t, amount)
    \/ \E id \in AgentIds, amount \in 0..MaxAmount : LedgerEscrowLock(id, amount)
    \/ \E f \in AgentIds, t \in AgentIds, amount \in 0..MaxAmount :
          LedgerEscrowRelease(f, t, amount)
    \/ \E id \in AgentIds, amount \in 0..MaxAmount : LedgerEscrowCancel(id, amount)

LedgerSpec == Init /\ [][LedgerNext]_vars

\* ------------------------------------------------ the models on their own
\* The methods of Agent, Policy and PaymentIntent called directly on an agent
\* with any policy and balance, and on a fresh intent.
Limits == {None} \cup {Some(n) : n \in 0..MaxAmount}

AllPolicies ==
    [max_per_transaction : Limits, daily_spend_cap : {None, Some(0)},
     require_human_approval_over : Limits,
     allowlist : {None} \cup {Some(S) : S \in SUBSET AgentIds}, paused : BOOLEAN]

ModelsInit ==
    /\ \E policy \in AllPolicies, balance \in 0..MaxAmount :
          agents = [a \in AgentIds |->
                       IF a \in Payers THEN [NewAgent(policy) EXCEPT !.balance = balance]
                       ELSE NoAgent]
    /\ entries = <<>>
    /\ intents = <<NewIntent("A", "B", 1, "None")>>
    /\ processed_intents = [k \in Keys \ {"None"} |-> 0]
    /\ escrows = <<>>
    /\ result = NoResult
    /\ calls = <<>>
    /\ transactions = <<>>

\* agents[id].can_pay(amount, recipient_id)
CanPay(id, amount, recipient_id) ==
    /\ result' = [op |-> "can_pay", agent_id |-> id, amount |-> amount,
                  recipient_id |-> recipient_id,
                  reason |-> can_pay(agents[id], amount, recipient_id)]
    /\ UNCHANGED <<agents, entries, intents, processed_intents, escrows, calls, transactions>>

\* agents[id].policy.is_amount_allowed(amount)
IsAmountAllowed(id, amount) ==
    /\ result' = [op |-> "is_amount_allowed", agent_id |-> id, amount |-> amount,
                  allowed |-> is_amount_allowed(agents[id].policy, amount)]
    /\ UNCHANGED <<agents, entries, intents, processed_intents, escrows, calls, transactions>>

\* agents[id].policy.requires_approval(amount)
RequiresApproval(id, amount) ==
    /\ result' = [op |-> "requires_approval", agent_id |-> id, amount |-> amount,
                  required |-> requires_approval(agents[id].policy, amount)]
    /\ UNCHANGED <<agents, entries, intents, processed_intents, escrows, calls, transactions>>

\* intent.mark_failed(reason) on the intent; the method has no guard.
MarkFailed(reason) ==
    /\ intents' = [intents EXCEPT ![1] = mark_failed(@, reason)]
    /\ result' = [op |-> "mark_failed", reason |-> reason]
    /\ UNCHANGED <<agents, entries, processed_intents, escrows, calls, transactions>>

ModelsNext ==
    \/ \E id \in Payers, amount \in 0..(MaxAmount + 1), t \in AgentIds : CanPay(id, amount, t)
    \/ \E id \in Payers, amount \in 0..(MaxAmount + 1) : IsAmountAllowed(id, amount)
    \/ \E id \in Payers, amount \in 0..(MaxAmount + 1) : RequiresApproval(id, amount)
    \/ \E reason \in FailureReasons \cup CustomReasons : MarkFailed(reason)

ModelsSpec == ModelsInit /\ [][ModelsNext]_vars

\* ------------------------------------------------------- the rail adapter
\* InternalCreditsAdapter over the registry, the ledger and the escrow manager.
\* RailTransaction(from_account, to_account, amount): the constructor validates
\* amount > 0 and the status starts at PENDING.  escrow is _internal_refs[id]
\* (0: none); `opened` is a history field no operation reads: the wallets as
\* they were when the call that built the transaction started.
NewTransaction(from_account, to_account, amount, opened) ==
    [from_account |-> from_account, to_account |-> to_account, amount |-> amount,
     status |-> "PENDING", escrow |-> 0, opened |-> opened]

\* What an adapter call gives back: the stores, whether it raised, and the
\* id of the transaction it returned (0 when it raised).
RailOut(ag, en, es, txns, raised, returned) ==
    [agents |-> ag, entries |-> en, escrows |-> es, transactions |-> txns,
     raised |-> raised, returned |-> returned]

transfer(ag, en, es, txns, from_account, to_account, amount) ==
    LET id == Len(txns) + 1
        txn == NewTransaction(from_account, to_account, amount, Wallets(ag))
        rec == record_payment(ag, en, from_account, to_account, amount, RailRef(id))
        failed == RailOut(ag, en, es, Append(txns, [txn EXCEPT !.status = "FAILED"]),
                          FALSE, id)
    IN IF ~(amount > 0) THEN RailOut(ag, en, es, txns, TRUE, 0)
       ELSE IF ~Exists(ag, from_account) THEN failed
       ELSE IF ~Exists(ag, to_account) THEN failed
       ELSE IF rec.raised
       THEN RailOut(rec.agents, rec.entries, es,
                    Append(txns, [txn EXCEPT !.status = "FAILED"]), FALSE, id)
       ELSE RailOut(rec.agents, rec.entries, es,
                    Append(txns, [txn EXCEPT !.status = "COMPLETED"]), FALSE, id)

authorize(ag, en, es, txns, from_account, to_account, amount) ==
    LET id == Len(txns) + 1
        txn == NewTransaction(from_account, to_account, amount, Wallets(ag))
        out == create_escrow(ag, en, es, from_account, to_account, amount)
    IN IF ~(amount > 0) THEN RailOut(ag, en, es, txns, TRUE, 0)
       ELSE IF out.raised \/ ~out.success
       THEN RailOut(out.agents, out.entries, out.escrows,
                    Append(txns, [txn EXCEPT !.status = "FAILED"]), FALSE, id)
       ELSE RailOut(out.agents, out.entries, out.escrows,
                    Append(txns, [txn EXCEPT !.status = "AUTHORIZED", !.escrow = out.id]),
                    FALSE, id)

\* capture that does not look at the status of the transaction.
capture_any_status(ag, en, es, txns, transaction_id, amount) ==
    IF transaction_id \notin DOMAIN txns THEN RailOut(ag, en, es, txns, TRUE, 0)
    ELSE IF ~IsNone(amount) /\ Val(amount) # txns[transaction_id].amount
    THEN RailOut(ag, en, es, txns, TRUE, 0)
    ELSE LET out == release_escrow(ag, en, es, txns[transaction_id].escrow)
         IN IF txns[transaction_id].escrow = 0 \/ out.raised \/ ~out.success
            THEN RailOut(out.agents, out.entries, out.escrows,
                         [txns EXCEPT ![transaction_id].status = "FAILED"],
                         FALSE, transaction_id)
            ELSE RailOut(out.agents, out.entries, out.escrows,
                         [txns EXCEPT ![transaction_id].status = "CAPTURED"],
                         FALSE, transaction_id)

\* amount is the Optional[int] argument: None captures the authorized amount.
capture(ag, en, es, txns, transaction_id, amount) ==
    IF transaction_id \notin DOMAIN txns THEN RailOut(ag, en, es, txns, TRUE, 0)
    ELSE IF txns[transaction_id].status # "AUTHORIZED"
    THEN RailOut(ag, en, es, txns, TRUE, 0)
    ELSE IF ~IsNone(amount) /\ Val(amount) # txns[transaction_id].amount
    THEN RailOut(ag, en, es, txns, TRUE, 0)
    ELSE LET out == release_escrow(ag, en, es, txns[transaction_id].escrow)
         IN IF txns[transaction_id].escrow = 0 \/ out.raised \/ ~out.success
            THEN RailOut(out.agents, out.entries, out.escrows,
                         [txns EXCEPT ![transaction_id].status = "FAILED"],
                         FALSE, transaction_id)
            ELSE RailOut(out.agents, out.entries, out.escrows,
                         [txns EXCEPT ![transaction_id].status = "CAPTURED"],
                         FALSE, transaction_id)

void(ag, en, es, txns, transaction_id) ==
    IF transaction_id \notin DOMAIN txns THEN RailOut(ag, en, es, txns, TRUE, 0)
    ELSE IF txns[transaction_id].status # "AUTHORIZED"
    THEN RailOut(ag, en, es, txns, TRUE, 0)
    ELSE LET out == cancel_escrow(ag, en, es, txns[transaction_id].escrow)
         IN IF txns[transaction_id].escrow = 0 \/ out.raised \/ ~out.success
            THEN RailOut(out.agents, out.entries, out.escrows,
                         [txns EXCEPT ![transaction_id].status = "FAILED"],
                         FALSE, transaction_id)
            ELSE RailOut(out.agents, out.entries, out.escrows,
                         [txns EXCEPT ![transaction_id].status = "CANCELLED"],
                         FALSE, transaction_id)

\* refund that leaves the status of the original transaction as it is.
refund_keeps_original(ag, en, es, txns, transaction_id, amount) ==
    IF transaction_id \notin DOMAIN txns THEN RailOut(ag, en, es, txns, TRUE, 0)
    ELSE IF txns[transaction_id].status # "COMPLETED"
    THEN RailOut(ag, en, es, txns, TRUE, 0)
    ELSE IF ~IsNone(amount) /\ Val(amount) # txns[transaction_id].amount
    THEN RailOut(ag, en, es, txns, TRUE, 0)
    ELSE LET original_txn == txns[transaction_id]
             id == Len(txns) + 1
             refund_txn == NewTransaction(original_txn.to_account, original_txn.from_account,
                                          original_txn.amount, Wallets(ag))
             rec == record_payment(ag, en, refund_txn.from_account, refund_txn.to_account,
                                   refund_txn.amount, RailRef(id))
         IN IF rec.raised
            THEN RailOut(rec.agents, rec.entries, es,
                         Append(txns, [refund_txn EXCEPT !.status = "FAILED"]), FALSE, id)
            ELSE RailOut(rec.agents, rec.entries, es,
                         Append(txns, [refund_txn EXCEPT !.status = "COMPLETED"]),
                         FALSE, id)

\* amount is the Optional[int] argument: None refunds the original amount.
refund(ag, en, es, txns, transaction_id, amount) ==
    IF transaction_id \notin DOMAIN txns THEN RailOut(ag, en, es, txns, TRUE, 0)
    ELSE IF txns[transaction_id].status # "COMPLETED"
    THEN RailOut(ag, en, es, txns, TRUE, 0)
    ELSE IF ~IsNone(amount) /\ Val(amount) # txns[transaction_id].amount
    THEN RailOut(ag, en, es, txns, TRUE, 0)
    ELSE LET original_txn == txns[transaction_id]
             id == Len(txns) + 1
             refund_txn == NewTransaction(original_txn.to_account, original_txn.from_account,
                                          original_txn.amount, Wallets(ag))
             rec == record_payment(ag, en, refund_txn.from_account, refund_txn.to_account,
                                   refund_txn.amount, RailRef(id))
         IN IF rec.raised
            THEN RailOut(rec.agents, rec.entries, es,
                         Append(txns, [refund_txn EXCEPT !.status = "FAILED"]), FALSE, id)
            ELSE RailOut(rec.agents, rec.entries, es,
                         Append([txns EXCEPT ![transaction_id].status = "REFUNDED"],
                                [refund_txn EXCEPT !.status = "COMPLETED"]),
                         FALSE, id)

\* A call of the adapter: transaction_id and amount are the arguments (0 and
\* None for the calls that take none).
RailCall(op, transaction_id, amount, out) ==
    /\ Len(out.transactions) <= MaxTransactions
    /\ Len(out.escrows) <= MaxEscrows
    /\ Len(out.entries) <= MaxEntries
    /\ agents' = out.agents
    /\ entries' = out.entries
    /\ escrows' = out.escrows
    /\ transactions' = out.transactions
    /\ result' = [op |-> op, transaction_id |-> transaction_id, amount |-> amount,
                  raised |-> out.raised, returned |-> out.returned]
    /\ UNCHANGED <<intents, processed_intents, calls>>

RailTransfer(from_account, to_account, amount) ==
    RailCall("transfer", 0, Some(amount),
             transfer(agents, entries, escrows, transactions, from_account, to_account,
                      amount))

RailAuthorize(from_account, to_account, amount) ==
    RailCall("authorize", 0, Some(amount),
             authorize(agents, entries, escrows, transactions, from_account, to_account,
                       amount))

RailCapture(transaction_id, amount) ==
    RailCall("capture", transaction_id, amount,
             capture(agents, entries, escrows, transactions, transaction_id, amount))

RailVoid(transaction_id) ==
    RailCall("void", transaction_id, None,
             void(agents, entries, escrows, transactions, transaction_id))

RailRefund(transaction_id, amount) ==
    RailCall("refund", transaction_id, amount,
             refund(agents, entries, escrows, transactions, transaction_id, amount))

\* The amount argument of capture and refund.
OptionalAmounts == {None} \cup {Some(n) : n \in 0..MaxAmount}

RailNext ==
    \/ \E id \in AgentIds : RegisterAgent(id)
    \/ \E id \in AgentIds, amount \in 1..MaxAmount : RecordTopUp(id, amount)
    \/ \E f \in Payers, t \in AgentIds, amount \in 0..MaxAmount : RailTransfer(f, t, amount)
    \/ \E f \in Payers, t \in AgentIds, amount \in 0..MaxAmount : RailAuthorize(f, t, amount)
    \/ \E t \in 1..(MaxTransactions + 1), amount \in OptionalAmounts : RailCapture(t, amount)
    \/ \E t \in 1..(MaxTransactions + 1) : RailVoid(t)
    \/ \E t \in 1..(MaxTransactions + 1), amount \in OptionalAmounts : RailRefund(t, amount)
    \/ \E e \in 1..MaxEscrows : CancelEscrow(e)

RailSpec == Init /\ [][RailNext]_vars

\* ------------------------------------------------ the registry on its own
\* AgentRegistry called directly with Agent objects the caller built: any
\* balance, default or paused policy.
Candidates ==
    {[NewAgent(policy) EXCEPT !.balance = balance] :
        policy \in {DefaultPolicy, [DefaultPolicy EXCEPT !.paused = TRUE]},
        balance \in 0..MaxAmount}

\* What a registry call gives back: the registry, whether it raised
\* ValueError, and the value returned (delete_agent: the bool).
RegistryOut(ag, raised, returned) == [agents |-> ag, raised |-> raised, returned |-> returned]

\* register_agent that stores the agent whether or not the id is present.
register_agent_overwrites(ag, agent_id, agent) ==
    RegistryOut([ag EXCEPT ![agent_id] = agent], FALSE, TRUE)

register_agent(ag, agent_id, agent) ==
    IF Exists(ag, agent_id) THEN RegistryOut(ag, TRUE, FALSE)
    ELSE RegistryOut([ag EXCEPT ![agent_id] = agent], FALSE, TRUE)

update_agent(ag, agent_id, agent) ==
    IF ~Exists(ag, agent_id) THEN RegistryOut(ag, TRUE, FALSE)
    ELSE RegistryOut([ag EXCEPT ![agent_id] = agent], FALSE, TRUE)

delete_agent(ag, agent_id) ==
    IF Exists(ag, agent_id) THEN RegistryOut([ag EXCEPT ![agent_id] = NoAgent], FALSE, TRUE)
    ELSE RegistryOut(ag, FALSE, FALSE)

\* len(registry._agents)
count_agents(ag) == Cardinality({a \in AgentIds : Exists(ag, a)})

RegistryCall(op, agent_id, agent, out) ==
    /\ agents' = out.agents
    /\ result' = [op |-> op, agent_id |-> agent_id, agent |-> agent,
                  raised |-> out.raised, returned |-> out.returned]
    /\ UNCHANGED <<entries, intents, processed_intents, escrows, calls, transactions>>

RegistryRegister(agent_id, agent) ==
    RegistryCall("register_agent", agent_id, agent, register_agent(agents, agent_id, agent))

RegistryUpdate(agent_id, agent) ==
    RegistryCall("update_agent", agent_id, agent, update_agent(agents, agent_id, agent))

RegistryDelete(agent_id) ==
    RegistryCall("delete_agent", agent_id, NoAgent, delete_agent(agents, agent_id))

RegistryNext ==
    \/ \E id \in AgentIds, agent \in Candidates : RegistryRegister(id, agent)
    \/ \E id \in AgentIds, agent \in Candidates : RegistryUpdate(id, agent)
    \/ \E id \in AgentIds : RegistryDelete(id)

RegistrySpec == Init /\ [][RegistryNext]_vars

\* --------------------------------------- escrows while agents are deleted
\* The escrow manager next to a registry whose agents are deleted and
\* registered again between the calls: the escrow store keeps the escrows of
\* agents that are gone.
DeletionNext ==
    \/ \E id \in AgentIds : RegisterAgent(id)
    \/ \E id \in AgentIds : RegistryDelete(id)
    \/ \E id \in Payers, amount \in 1..MaxAmount : RecordTopUp(id, amount)
    \/ \E f \in Payers : \E t \in AgentIds \ {f}, amount \in 1..MaxAmount :
          CreateEscrow(f, t, amount)
    \/ \E e \in 1..MaxEscrows : ReleaseEscrow(e)
    \/ \E e \in 1..MaxEscrows : CancelEscrow(e)

DeletionSpec == Init /\ [][DeletionNext]_vars

\* ------------------------------------------ concurrent execute_payment
\* Two request threads share one engine (the API routes are plain functions
\* run on a thread pool; no module of the core takes a lock).  Each thread
\* runs execute_payment on its own PaymentIntent; a step is one of the
\* engine's stages: cache lookup, agent lookup, can_pay, record_payment,
\* cache write and return.
Threads == {1, 2}

\* The locals of a call: its position, its intent (intents[intent]), and what
\* it returned (intent id, success, error_code) once it is done.
NewCall(i) ==
    [pc |-> "lookup", intent |-> i, returned |-> 0, success |-> FALSE,
     error_code |-> "None"]

ConcInit ==
    /\ \E balance \in 0..MaxFunds, payee \in {NoAgent, NewAgent(DefaultPolicy)} :
          agents = [a \in AgentIds |->
                       IF a \in Payers
                       THEN [NewAgent(DefaultPolicy) EXCEPT !.balance = balance]
                       ELSE payee]
    /\ entries = <<>>
    /\ \E amounts \in [Threads -> 1..MaxAmount], keys \in [Threads -> Keys] :
          intents = [t \in Threads |-> NewIntent("A", "B", amounts[t], keys[t])]
    /\ processed_intents = [k \in Keys \ {"None"} |-> 0]
    /\ escrows = <<>>
    /\ result = NoResult
    /\ calls = [t \in Threads |-> NewCall(t)]
    /\ transactions = <<>>

\* The call returns the PaymentResult for intent i.
Return(t, i, success, error_code, already_processed) ==
    /\ calls' = [calls EXCEPT ![t].pc = "done", ![t].returned = i,
                              ![t].success = success, ![t].error_code = error_code]
    /\ result' = Result("execute_payment", FALSE, success, error_code,
                        already_processed, i)

\* mark_failed(reason), then on to _failed_result
Fail(t, reason) ==
    /\ intents' = [intents EXCEPT ![calls[t].intent] = mark_failed(@, reason)]
    /\ calls' = [calls EXCEPT ![t].pc = "failed_result", ![t].error_code = reason]

\* if payment_intent.idempotency_key: existing = _processed_intents.get(key)
Lookup(t) ==
    LET existing == cached_intent(processed_intents, intents[calls[t].intent].idempotency_key)
    IN /\ calls[t].pc = "lookup"
       /\ IF existing # 0
          THEN Return(t, existing, intents[existing].status = "COMPLETED",
                      intents[existing].failure_reason, TRUE)
          ELSE calls' = [calls EXCEPT ![t].pc = "get_agent"] /\ UNCHANGED result
       /\ UNCHANGED <<agents, entries, intents, processed_intents, escrows, transactions>>

\* from_agent = get_agent(...); to_agent = get_agent(...); the two None tests
GetAgents(t) ==
    LET intent == intents[calls[t].intent]
    IN /\ calls[t].pc = "get_agent"
       /\ IF ~Exists(agents, intent.from_agent_id) THEN Fail(t, "PAYER_NOT_FOUND")
          ELSE IF ~Exists(agents, intent.to_agent_id) THEN Fail(t, "PAYEE_NOT_FOUND")
          ELSE calls' = [calls EXCEPT ![t].pc = "can_pay"] /\ UNCHANGED intents
       /\ UNCHANGED <<agents, entries, processed_intents, escrows, result, transactions>>

\* can_pay, reason = from_agent.can_pay(amount, to_agent_id)
CheckCanPay(t) ==
    LET intent == intents[calls[t].intent]
        reason == can_pay(get_agent(agents, intent.from_agent_id), intent.amount,
                          intent.to_agent_id)
    IN /\ calls[t].pc = "can_pay"
       /\ IF reason # "None" THEN Fail(t, reason)
          ELSE calls' = [calls EXCEPT ![t].pc = "record_payment"] /\ UNCHANGED intents
       /\ UNCHANGED <<agents, entries, processed_intents, escrows, result, transactions>>

\* try: ledger_manager.record_payment(...); mark_completed()
\* except Exception: mark_failed("EXECUTION_ERROR")
RecordPayment(t) ==
    LET i == calls[t].intent
        rec == record_payment(agents, entries, intents[i].from_agent_id,
                              intents[i].to_agent_id, intents[i].amount, IntentRef(i))
    IN /\ calls[t].pc = "record_payment"
       /\ agents' = rec.agents
       /\ entries' = rec.entries
       /\ IF rec.raised THEN Fail(t, "EXECUTION_ERROR")
          ELSE /\ intents' = [intents EXCEPT ![i] = mark_completed(@)]
               /\ calls' = [calls EXCEPT ![t].pc = "store"]
       /\ UNCHANGED <<processed_intents, escrows, result, transactions>>

\* if idempotency_key: _processed_intents[key] = payment_intent; return the
\* successful PaymentResult
StoreAndReturn(t) ==
    LET i == calls[t].intent
        key == intents[i].idempotency_key
    IN /\ calls[t].pc = "store"
       /\ processed_intents' =
             IF key # "None" THEN [processed_intents EXCEPT ![key] = i]
             ELSE processed_intents
       /\ Return(t, i, TRUE, "None", FALSE)
       /\ UNCHANGED <<agents, entries, intents, escrows, transactions>>

\* _failed_result: cache the failed intent under its key, return the failure
FailedResult(t) ==
    LET i == calls[t].intent
        out == failed_result(intents, processed_intents, i, calls[t].error_code)
    IN /\ calls[t].pc = "failed_result"
       /\ processed_intents' = out.cache
       /\ Return(t, i, FALSE, out.error_code, FALSE)
       /\ UNCHANGED <<agents, entries, intents, escrows, transactions>>

ConcNext ==
    \/ \E t \in Threads : Lookup(t)
    \/ \E t \in Threads : GetAgents(t)
    \/ \E t \in Threads : CheckCanPay(t)
    \/ \E t \in Threads : RecordPayment(t)
    \/ \E t \in Threads : StoreAndReturn(t)
    \/ \E t \in Threads : FailedResult(t)

ConcSpec == ConcInit /\ [][ConcNext]_vars

\* ------------------------------- concurrent release_escrow / cancel_escrow
\* Two settlement calls on a shared EscrowManager, interleaved between the
\* status check, the ledger call and the status update.  Neither method takes
\* a lock.  The state they start from is built by the calls a client makes:
\* both agents registered, the payer topped up, one or two escrows created.
Operations == {"release_escrow", "cancel_escrow"}

Funded(funds) ==
    record_top_up([a \in AgentIds |-> NewAgent(DefaultPolicy)], <<>>, "A", funds, TopUpRef)

LockedOnce(funds, first) ==
    create_escrow(Funded(funds).agents, Funded(funds).entries, <<>>, "A", "B", first)

LockedTwice(funds, first, second) ==
    LET one == LockedOnce(funds, first)
    IN create_escrow(one.agents, one.entries, one.escrows, "A", "B", second)

SettleCall(op, escrow_id) ==
    [pc |-> "status", op |-> op, escrow_id |-> escrow_id, success |-> FALSE,
     error_code |-> "None"]

SettleInit ==
    /\ \E funds \in 1..MaxFunds, first \in 1..MaxAmount, second \in 0..MaxAmount :
          LET one == LockedOnce(funds, first)
              setup == IF second = 0 THEN one ELSE LockedTwice(funds, first, second)
          IN /\ one.success /\ setup.success
             /\ Len(setup.escrows) <= MaxEscrows
             /\ agents = setup.agents
             /\ entries = setup.entries
             /\ escrows = setup.escrows
    /\ \E ops \in [Threads -> Operations], ids \in [Threads -> DOMAIN escrows] :
          calls = [t \in Threads |-> SettleCall(ops[t], ids[t])]
    /\ intents = <<>>
    /\ processed_intents = [k \in Keys \ {"None"} |-> 0]
    /\ result = NoResult
    /\ transactions = <<>>

\* return EscrowResult(success, escrow, error_code)
SettleReturn(t, success, error_code) ==
    /\ calls' = [calls EXCEPT ![t].pc = "done", ![t].success = success,
                              ![t].error_code = error_code]
    /\ result' = Result(calls[t].op, FALSE, success, error_code, FALSE, calls[t].escrow_id)

\* escrow = self._escrows.get(escrow_id); if escrow.status != LOCKED: return
CheckStatus(t) ==
    /\ calls[t].pc = "status"
    /\ IF escrows[calls[t].escrow_id].status # "LOCKED"
       THEN SettleReturn(t, FALSE, "ESCROW_NOT_LOCKED")
       ELSE calls' = [calls EXCEPT ![t].pc = "ledger"] /\ UNCHANGED result
    /\ UNCHANGED <<agents, entries, intents, processed_intents, escrows, transactions>>

\* try: ledger_manager.record_escrow_release(...) / record_escrow_cancel(...)
\* except Exception: return EXECUTION_ERROR
SettleLedger(t) ==
    LET escrow == escrows[calls[t].escrow_id]
        rec == IF calls[t].op = "release_escrow"
               THEN record_escrow_release(agents, entries, escrow.from_agent_id,
                                          escrow.to_agent_id, escrow.amount,
                                          EscrowRef(calls[t].escrow_id))
               ELSE record_escrow_cancel(agents, entries, escrow.from_agent_id,
                                         escrow.amount, EscrowRef(calls[t].escrow_id))
    IN /\ calls[t].pc = "ledger"
       /\ agents' = rec.agents
       /\ entries' = rec.entries
       /\ IF rec.raised THEN SettleReturn(t, FALSE, "EXECUTION_ERROR")
          ELSE calls' = [calls EXCEPT ![t].pc = "mark"] /\ UNCHANGED result
       /\ UNCHANGED <<intents, processed_intents, escrows, transactions>>

\* escrow.mark_released() / escrow.mark_cancelled(); return the success
MarkAndReturn(t) ==
    /\ calls[t].pc = "mark"
    /\ escrows' = [escrows EXCEPT ![calls[t].escrow_id].status =
                      IF calls[t].op = "release_escrow" THEN "RELEASED" ELSE "CANCELLED"]
    /\ SettleReturn(t, TRUE, "None")
    /\ UNCHANGED <<agents, entries, intents, processed_intents, transactions>>

SettleNext ==
    \/ \E t \in Threads : CheckStatus(t)
    \/ \E t \in Threads : SettleLedger(t)
    \/ \E t \in Threads : MarkAndReturn(t)

SettleSpec == SettleInit /\ [][SettleNext]_vars

\* ------------------------------------------------------------------ claims
\* The calls of execute_payment in one step: a new intent or a stored one.
PaymentCall ==
    \/ \E f \in Payers, t \in AgentIds, amount \in 1..MaxAmount, key \in Keys :
          Pay(f, t, amount, key)
    \/ \E i \in DOMAIN intents : ExecutePayment(i)

\* The calls of execute_payment whose intent carries the key.
PaymentCallWithKey(key) ==
    \/ \E f \in Payers, t \in AgentIds, amount \in 1..MaxAmount : Pay(f, t, amount, key)
    \/ \E i \in DOMAIN intents : intents[i].idempotency_key = key /\ ExecutePayment(i)

\* The PAYMENT entries filed under intents that carry the key.
PaymentEntriesOfKey(key) ==
    SelectSeq(entries, LAMBDA e :
        /\ e.entry_type = "PAYMENT"
        /\ \E i \in DOMAIN intents :
              intents[i].idempotency_key = key /\ e.reference_id = IntentRef(i))

\* C1: in every reachable state every registered agent has balance >= 0 and
\* hold >= 0.
C1_NonNegativeWallets ==
    \A a \in AgentIds :
        Exists(agents, a) => agents[a].balance >= 0 /\ agents[a].hold >= 0

\* An escrow was released out of a wallet that it leaves empty.
C1_Witness ==
    /\ result.op = "release_escrow" /\ result.success
    /\ LET payer == escrows[result.id].from_agent_id
       IN agents[payer].balance = 0 /\ agents[payer].hold = 0

\* C2: the ledger entries whose reference_id is a payment intent's id sum to
\* zero, for every intent, keyed or not, executed once or more than once.
C2_IntentEntriesSumToZero ==
    \A i \in DOMAIN intents :
        SumDeltas(get_entries_by_reference(entries, IntentRef(i))) = 0

\* An intent without a key was executed twice and paid twice.
C2_Witness ==
    \E i \in DOMAIN intents :
        /\ intents[i].idempotency_key = "None"
        /\ Len(get_entries_by_reference(entries, IntentRef(i))) = 4

\* C3: for every reference_id whose entries hold no TOP_UP and no WITHDRAWAL,
\* the entries sum to zero; escrow ids included, while the escrow is LOCKED,
\* after it is RELEASED and after it is CANCELLED.
C3_ReferenceGroupsSumToZero ==
    \A r \in {entries[n].reference_id : n \in DOMAIN entries} :
        LET found == get_entries_by_reference(entries, r)
        IN ("TOP_UP" \notin EntryTypes(found) /\ "WITHDRAWAL" \notin EntryTypes(found))
           => SumDeltas(found) = 0

C5_CachedCallChangesNothing ==
    [][\A key \in Keys \ {"None"} :
          (processed_intents[key] # 0 /\ PaymentCallWithKey(key))
          => /\ agents' = agents
             /\ entries' = entries
             /\ intents' = intents
             /\ processed_intents' = processed_intents
             /\ result'.id = processed_intents[key]
             /\ result'.success = (intents[processed_intents[key]].status = "COMPLETED")
             /\ result'.error_code = intents[processed_intents[key]].failure_reason]_vars

\* A call was answered with the cached failure although the payer could pay
\* the cached intent by now.
C5_Witness ==
    /\ result.op = "execute_payment" /\ result.already_processed /\ ~result.success
    /\ LET intent == intents[result.id]
       IN /\ Exists(agents, intent.from_agent_id) /\ Exists(agents, intent.to_agent_id)
          /\ can_pay(agents[intent.from_agent_id], intent.amount, intent.to_agent_id)
                = "None"

PreExecutionCodes ==
    {"PAYER_NOT_FOUND", "PAYEE_NOT_FOUND", "AGENT_PAUSED", "RECIPIENT_NOT_ALLOWED",
     "AMOUNT_EXCEEDS_LIMIT", "INSUFFICIENT_FUNDS"}

\* C6: an execute_payment call that returns success = False with one of the
\* six pre-execution codes leaves every agent's balance and hold and the list
\* of ledger entries as they were.
C6_FailedPaymentChangesNothing ==
    [][(/\ result'.op = "execute_payment" /\ ~result'.success
        /\ result'.error_code \in PreExecutionCodes
        /\ PaymentCall)
          => Wallets(agents') = Wallets(agents) /\ entries' = entries]_vars

\* A payment the payer had the funds for was refused for its amount.
C6_Witness ==
    /\ result.op = "execute_payment" /\ ~result.success /\ ~result.already_processed
    /\ result.error_code = "AMOUNT_EXCEEDS_LIMIT"
    /\ agents[intents[result.id].from_agent_id].balance >= intents[result.id].amount

\* C7: once a PaymentIntent has a terminal status, no later execute_payment
\* call changes the status, with or without an idempotency key.
C7_TerminalIntentKeepsStatus ==
    [][\A i \in DOMAIN intents :
          intents[i].status \in Terminal => intents'[i].status = intents[i].status]_vars

\* C8: an escrow's status moves only from LOCKED to RELEASED or from LOCKED to
\* CANCELLED; a RELEASED or CANCELLED escrow keeps its status.
C8_EscrowStatusMovesOnce ==
    [][\A e \in DOMAIN escrows :
          /\ e \in DOMAIN escrows'
          /\ escrows'[e].status \in {escrows[e].status, "RELEASED", "CANCELLED"}
          /\ escrows[e].status # "LOCKED" => escrows'[e].status = escrows[e].status]_vars

\* A cancel was tried on a RELEASED escrow while the payer had funds on hold.
C8_Witness ==
    /\ result.op = "cancel_escrow" /\ result.error_code = "ESCROW_NOT_LOCKED"
    /\ escrows[result.id].status = "RELEASED"
    /\ agents[escrows[result.id].from_agent_id].hold >= escrows[result.id].amount

\* C9: release_escrow or cancel_escrow on a RELEASED or CANCELLED escrow
\* returns ESCROW_NOT_LOCKED, on an unknown id returns ESCROW_NOT_FOUND, and
\* in both cases every wallet, the ledger and every escrow stay as they were.
C9_SettlingNoLockedEscrow ==
    [][\A e \in 1..(MaxEscrows + 1) :
          (ReleaseEscrow(e) \/ CancelEscrow(e))
          => /\ e \notin DOMAIN escrows
                => /\ ~result'.raised /\ result'.error_code = "ESCROW_NOT_FOUND"
                   /\ agents' = agents /\ entries' = entries /\ escrows' = escrows
             /\ (e \in DOMAIN escrows /\ escrows[e].status # "LOCKED")
                => /\ ~result'.raised /\ result'.error_code = "ESCROW_NOT_LOCKED"
                   /\ agents' = agents /\ entries' = entries /\ escrows' = escrows]_vars

\* C10: for a payer P and a recipient Q other than P, a successful
\* create_escrow(P, Q, amount) followed at once by release_escrow of the new
\* escrow leaves P.balance lower by amount, P.hold as it was and Q.balance
\* higher by amount, all measured against the wallets before the create.
C10_CreateThenRelease ==
    [][/\ \A P \in Payers, Q \in AgentIds, amount \in 1..MaxAmount :
             (/\ P # Q /\ Exists(agents, P) /\ Exists(agents, Q)
              /\ amount <= agents[P].balance
              /\ CreateEscrow(P, Q, amount))
             => result'.success /\ result'.id \in DOMAIN escrows'
       /\ \A e \in DOMAIN escrows :
             (/\ result.op = "create_escrow" /\ result.success /\ result.id = e
              /\ escrows[e].from_agent_id # escrows[e].to_agent_id
              /\ ReleaseEscrow(e))
             => LET P == escrows[e].from_agent_id
                    Q == escrows[e].to_agent_id
                    amount == escrows[e].amount
                    opened == escrows[e].opened
                IN /\ result'.success
                   /\ agents'[P].balance = opened[P].balance - amount
                   /\ agents'[P].hold = opened[P].hold
                   /\ agents'[Q].balance = opened[Q].balance + amount]_vars

\* An escrow was released right after its lock, the last wallet change before
\* the release, while the payer had other funds on hold.
C10_Witness ==
    /\ result.op = "release_escrow" /\ result.success
    /\ escrows[result.id].from_agent_id # escrows[result.id].to_agent_id
    /\ escrows[result.id].opened[escrows[result.id].from_agent_id].hold > 0
    /\ Len(entries) >= 3
    /\ entries[Len(entries) - 2].entry_type = "ESCROW_LOCK"
    /\ entries[Len(entries) - 2].reference_id = EscrowRef(result.id)

Holds(ag) == [a \in AgentIds |-> ag[a].hold]

\* C12 as stated: every execute_payment call that returns success was made
\* with amount <= the payer's balance at the time of the call, and no
\* execute_payment call changes any agent's hold.
C12_SuccessOnlyWithinBalance ==
    [][result'.op = "execute_payment"
       => /\ \A f \in Payers, t \in AgentIds, amount \in 1..MaxAmount, key \in Keys :
                (result'.success /\ Pay(f, t, amount, key))
                => amount <= agents[f].balance
          /\ \A i \in DOMAIN intents :
                (result'.success /\ ExecutePayment(i))
                => intents[i].amount <= agents[intents[i].from_agent_id].balance
          /\ PaymentCall => Holds(agents') = Holds(agents)]_vars

\* C12, amended: every execute_payment call that returns success and is not
\* answered from the idempotency cache was made with amount <= the payer's
\* balance at the time of the call (a cached answer repeats the first call's
\* success and moves nothing), and no execute_payment call changes any hold.
C12_TransferOnlyWithinBalance ==
    [][result'.op = "execute_payment"
       => /\ \A f \in Payers, t \in AgentIds, amount \in 1..MaxAmount, key \in Keys :
                (result'.success /\ ~result'.already_processed /\ Pay(f, t, amount, key))
                => amount <= agents[f].balance
          /\ \A i \in DOMAIN intents :
                (result'.success /\ ~result'.already_processed /\ ExecutePayment(i))
                => intents[i].amount <= agents[intents[i].from_agent_id].balance
          /\ PaymentCall
                => /\ Holds(agents') = Holds(agents)
                   /\ result'.already_processed => agents' = agents]_vars

\* A payment was refused for funds that the payer's hold would have covered.
C12_Witness ==
    /\ result.op = "execute_payment" /\ ~result.already_processed
    /\ result.error_code = "INSUFFICIENT_FUNDS"
    /\ LET intent == intents[result.id]
           payer == agents[intent.from_agent_id]
       IN payer.balance < intent.amount /\ intent.amount <= payer.balance + payer.hold

\* C13: while an agent's policy.paused is true, no operation decreases the
\* agent's balance or moves its funds (balance + hold) to another agent.
C13_PausedAgentKeepsFunds ==
    [][\A a \in AgentIds :
          (Exists(agents, a) /\ agents[a].policy.paused)
          => /\ agents'[a].balance >= agents[a].balance
             /\ agents'[a].balance + agents'[a].hold
                   >= agents[a].balance + agents[a].hold]_vars

\* C14: if an agent's policy.allowlist is not null, every operation that moves
\* value out of the agent's wallet (balance + hold) into another agent's
\* balance has a recipient that is in the allowlist.
C14_TransfersRespectAllowlist ==
    [][\A a \in AgentIds, b \in AgentIds :
          (/\ a # b /\ Exists(agents, a) /\ ~IsNone(agents[a].policy.allowlist)
           /\ agents'[a].balance + agents'[a].hold < agents[a].balance + agents[a].hold
           /\ agents'[b].balance > agents[b].balance)
          => b \in Val(agents[a].policy.allowlist)]_vars

LedgerOps ==
    {"record_top_up", "record_payment", "record_escrow_lock", "record_escrow_release",
     "record_escrow_cancel"}

C16_LedgerIsAppendOnly ==
    [][/\ Len(entries') >= Len(entries)
       /\ SubSeq(entries', 1, Len(entries)) = entries
       /\ (result'.raised \/ ~result'.success) => entries' = entries]_vars

\* A create_escrow failed for funds on a ledger that already had entries.
C16_Witness ==
    /\ result.op = "create_escrow" /\ ~result.success
    /\ result.error_code = "INSUFFICIENT_FUNDS"
    /\ Len(entries) >= 3

C18_PolicyBoundaries ==
    /\ result.op = "is_amount_allowed" =>
          LET limit == agents[result.agent_id].policy.max_per_transaction
          IN /\ limit = None => result.allowed
             /\ (limit # None /\ result.amount = limit[1]) => result.allowed
             /\ (limit # None /\ result.amount = limit[1] + 1) => ~result.allowed
    /\ result.op = "requires_approval" =>
          LET over == agents[result.agent_id].policy.require_human_approval_over
          IN /\ over = None => ~result.required
             /\ (over # None /\ result.amount = over[1]) => ~result.required
             /\ (over # None /\ result.amount = over[1] + 1) => result.required

\* is_amount_allowed refused the amount just above the largest limit.
C18_Witness ==
    /\ result.op = "is_amount_allowed" /\ ~result.allowed
    /\ agents[result.agent_id].policy.max_per_transaction = Some(MaxAmount)
    /\ result.amount = MaxAmount + 1

\* C19: mark_failed(reason) sets the status to FAILED_FUNDS exactly when the
\* reason contains "FUNDS", and to FAILED_POLICY for every other reason.
C19_FundsReasonsGiveFailedFunds ==
    result.op = "mark_failed" =>
        /\ intents[1].failure_reason = result.reason
        /\ intents[1].status =
              IF Contains(result.reason, "FUNDS") THEN "FAILED_FUNDS" ELSE "FAILED_POLICY"

\* C20: once execute_payment has processed an intent, with or without an
\* idempotency key, get_payment_status(intent_id) returns that intent (whose
\* status is final).
C20_ProcessedIntentIsFound ==
    \A i \in DOMAIN intents :
        /\ get_payment_status(processed_intents, i) = i
        /\ intents[i].status \in Terminal

\* C21: every execute_payment call returns a terminal result: the status of
\* the returned intent is COMPLETED, FAILED_POLICY or FAILED_FUNDS, success is
\* true iff the status is COMPLETED, and error_code is null iff success is true.
C21_ResultIsTerminal ==
    result.op = "execute_payment" =>
        /\ ~result.raised
        /\ result.id \in DOMAIN intents
        /\ intents[result.id].status \in {"COMPLETED", "FAILED_POLICY", "FAILED_FUNDS"}
        /\ result.success <=> intents[result.id].status = "COMPLETED"
        /\ result.error_code = "None" <=> result.success

\* A replay answered from the cache reports the failure of the first call.
C21_Witness ==
    /\ result.op = "execute_payment" /\ result.already_processed
    /\ ~result.success /\ result.error_code = "INSUFFICIENT_FUNDS"
    /\ intents[result.id].status = "FAILED_FUNDS"

\* C22: two concurrent execute_payment calls that carry the same idempotency
\* key cause at most one wallet mutation (one pair of PAYMENT entries) and
\* return the same intent_id.
C22_ConcurrentSameKeyPaysOnce ==
    (/\ \A t \in Threads : calls[t].pc = "done"
     /\ intents[1].idempotency_key # "None"
     /\ intents[1].idempotency_key = intents[2].idempotency_key)
    => /\ Len(entries) <= 2
       /\ calls[1].returned = calls[2].returned

\* C23: no execute_payment call whose can_pay check passed ends as a failure
\* because another call of the same payer lowered the balance in between.
C23_CheckAndDebitAreAtomic ==
    \A t \in Threads : calls[t].error_code # "EXECUTION_ERROR"

\* C24: register_agent with an id already present raises and leaves the
\* registry as it was (same count, the stored agent not replaced); update_agent
\* with an absent id raises and inserts nothing; delete_agent returns true iff
\* the id was present.
C24_RegistryKeepsIdsUnique ==
    [][/\ (result'.op = "register_agent" /\ Exists(agents, result'.agent_id))
            => /\ result'.raised
               /\ agents' = agents
               /\ count_agents(agents') = count_agents(agents)
       /\ (result'.op = "register_agent" /\ ~Exists(agents, result'.agent_id))
            => /\ ~result'.raised
               /\ count_agents(agents') = count_agents(agents) + 1
       /\ (result'.op = "update_agent" /\ ~Exists(agents, result'.agent_id))
            => /\ result'.raised
               /\ agents' = agents
       /\ result'.op = "delete_agent"
            => /\ ~result'.raised
               /\ result'.returned <=> Exists(agents, result'.agent_id)
               /\ ~Exists(agents', result'.agent_id)]_vars

\* A second register_agent under a stored id was refused, and the stored agent
\* is not the one the caller passed.
C24_Witness ==
    /\ result.op = "register_agent" /\ result.raised
    /\ Exists(agents, result.agent_id)
    /\ agents[result.agent_id] # result.agent

\* The registry with every daily_spend_cap set to None.
EraseCap(ag) == [a \in DOMAIN ag |-> [ag[a] EXCEPT !.policy.daily_spend_cap = None]]

\* Two outcomes of a call that differ at most in daily_spend_cap values.
SameButCap(x, y) ==
    /\ EraseCap(x.agents) = EraseCap(y.agents)
    /\ [x EXCEPT !.agents = {}] = [y EXCEPT !.agents = {}]

C26_BalanceAfterIsPreviousPlusDelta ==
    [][\A k \in (Len(entries) + 1)..Len(entries') :
          entries'[k].balance_after
             = agents[entries'[k].agent_id].balance + entries'[k].delta_amount]_vars

\* What a payment of the intent i does to the registry and to the ledger.
PaymentEffect(i) ==
    LET P == intents'[i].from_agent_id
        Q == intents'[i].to_agent_id
        a == intents'[i].amount
    IN P # Q =>
         /\ agents' = [agents EXCEPT ![P].balance = @ - a, ![P].total_spent = @ + a,
                                     ![Q].balance = @ + a, ![Q].total_earned = @ + a]
         /\ Len(entries') = Len(entries) + 2
         /\ SubSeq(entries', 1, Len(entries)) = entries
         /\ LET debit == entries'[Len(entries) + 1]
                credit == entries'[Len(entries) + 2]
            IN /\ debit.agent_id = P /\ debit.delta_amount = -a
               /\ credit.agent_id = Q /\ credit.delta_amount = a
               /\ debit.reference_id = IntentRef(i) /\ credit.reference_id = IntentRef(i)

\* C27 as stated: every successful execute_payment of amount a from P to a
\* different payee Q lowers P.balance by a, raises Q.balance by a, adds a to
\* P.total_spent and Q.total_earned, leaves the holds and every other agent
\* alone, and appends exactly the entries -a for P and +a for Q under the
\* intent id.
C27_SuccessfulPaymentMovesAmount ==
    [][(result'.op = "execute_payment" /\ result'.success)
          => PaymentEffect(result'.id)]_vars

\* C27 amended: the same for every successful execute_payment that was not
\* answered from the idempotency cache; a call answered from the cache reports
\* success and changes no wallet and no entry.
C27_ExecutedPaymentMovesAmount ==
    [][/\ (result'.op = "execute_payment" /\ result'.success /\ ~result'.already_processed)
          => PaymentEffect(result'.id)
       /\ (result'.op = "execute_payment" /\ result'.already_processed)
          => agents' = agents /\ entries' = entries]_vars

\* A payment between two agents went through while the payer had funds on hold.
C27_Witness ==
    /\ result.op = "execute_payment" /\ result.success /\ ~result.already_processed
    /\ intents[result.id].from_agent_id # intents[result.id].to_agent_id
    /\ agents[intents[result.id].from_agent_id].hold > 0
    /\ agents[intents[result.id].to_agent_id].total_earned = intents[result.id].amount

\* C28: capture and void are accepted only while the transaction is
\* AUTHORIZED: a capture or void that is accepted leaves the transaction in a
\* status other than AUTHORIZED, no transaction returns to AUTHORIZED, and a
\* capture or void of a transaction that is not AUTHORIZED raises and changes
\* no wallet; a void right after the authorize restores the wallets to what
\* they were before the authorize.
C28_AuthorizationSettlesOnce ==
    [][/\ \A t \in DOMAIN transactions :
             /\ (/\ result'.op \in {"capture", "void"} /\ result'.transaction_id = t
                 /\ transactions[t].status # "AUTHORIZED")
                => /\ result'.raised
                   /\ agents' = agents /\ entries' = entries
                   /\ escrows' = escrows /\ transactions' = transactions
             /\ (/\ result'.op \in {"capture", "void"} /\ result'.transaction_id = t
                 /\ ~result'.raised)
                => /\ transactions[t].status = "AUTHORIZED"
                   /\ transactions'[t].status \in {"CAPTURED", "CANCELLED", "FAILED"}
             /\ transactions[t].status # "AUTHORIZED"
                => transactions'[t].status # "AUTHORIZED"
             /\ (/\ result.op = "authorize" /\ result.returned = t
                 /\ transactions[t].status = "AUTHORIZED"
                 /\ result'.op = "void" /\ result'.transaction_id = t)
                => /\ ~result'.raised
                   /\ transactions'[t].status = "CANCELLED"
                   /\ Wallets(agents') = transactions[t].opened]_vars

\* A second settlement of a captured authorization was refused.
C28_Witness ==
    /\ result.op \in {"capture", "void"} /\ result.raised
    /\ result.transaction_id \in DOMAIN transactions
    /\ transactions[result.transaction_id].status = "CAPTURED"

\* C29: refund is accepted only while the original transaction is COMPLETED
\* and only for its full amount; a successful refund moves the amount back
\* (right after the transfer: both balances are what they were before it) and
\* marks the original REFUNDED, which it stays; a refund of a transaction that
\* is not COMPLETED raises and changes no wallet.
C29_TransferRefundsOnce ==
    [][\A t \in DOMAIN transactions :
          LET original == transactions[t]
              refunding == result'.op = "refund" /\ result'.transaction_id = t
          IN /\ (refunding /\ original.status # "COMPLETED")
                => /\ result'.raised
                   /\ agents' = agents /\ entries' = entries
                   /\ transactions' = transactions
             /\ (refunding /\ ~IsNone(result'.amount)
                           /\ Val(result'.amount) # original.amount)
                => /\ result'.raised
                   /\ agents' = agents /\ entries' = entries
                   /\ transactions' = transactions
             /\ (refunding /\ ~result'.raised
                           /\ transactions'[result'.returned].status = "COMPLETED")
                => /\ original.status = "COMPLETED"
                   /\ transactions'[t].status = "REFUNDED"
                   /\ transactions'[result'.returned].amount = original.amount
                   /\ original.from_account # original.to_account
                      => /\ agents'[original.from_account].balance
                              = agents[original.from_account].balance + original.amount
                         /\ agents'[original.to_account].balance
                              = agents[original.to_account].balance - original.amount
             /\ (/\ result.op = "transfer" /\ result.returned = t
                 /\ original.status = "COMPLETED"
                 /\ refunding /\ IsNone(result'.amount))
                => /\ ~result'.raised
                   /\ transactions'[t].status = "REFUNDED"
                   /\ Wallets(agents') = original.opened
             /\ original.status = "REFUNDED" => transactions'[t].status = "REFUNDED"]_vars

\* A second refund of a refunded transfer was refused.
C29_Witness ==
    /\ result.op = "refund" /\ result.raised /\ IsNone(result.amount)
    /\ result.transaction_id \in DOMAIN transactions
    /\ transactions[result.transaction_id].status = "REFUNDED"

\* What a ledger call with one agent must raise first: the amount error for
\* amount <= 0, else the not-found error for a missing agent.
FirstErrorOfOne(id, amount) ==
    /\ amount <= 0 => result'.raised /\ result'.error_code = "amount"
    /\ (amount > 0 /\ ~Exists(agents, id))
          => result'.raised /\ result'.error_code = "not_found"

\* The same for a call with a payer and a payee: the payer is looked at first.
FirstErrorOfTwo(from_agent_id, to_agent_id, amount) ==
    /\ amount <= 0 => result'.raised /\ result'.error_code = "amount"
    /\ (amount > 0 /\ ~Exists(agents, from_agent_id))
          => result'.raised /\ result'.error_code = "payer_not_found"
    /\ (amount > 0 /\ Exists(agents, from_agent_id) /\ ~Exists(agents, to_agent_id))
          => result'.raised /\ result'.error_code = "payee_not_found"

\* C30: every record_* call with amount <= 0 raises the amount error, also for
\* a missing agent; a call that names a missing agent raises the not-found
\* error, also when the balance or hold would not suffice; record_payment and
\* record_escrow_release report a missing payer before a missing payee.
C30_LedgerValidationOrder ==
    [][/\ result'.op \in {"record_top_up", "record_escrow_lock", "record_escrow_cancel"}
          => \A id \in AgentIds, amount \in 0..MaxAmount :
                (\/ result'.op = "record_top_up" /\ LedgerTopUp(id, amount)
                 \/ result'.op = "record_escrow_lock" /\ LedgerEscrowLock(id, amount)
                 \/ result'.op = "record_escrow_cancel" /\ LedgerEscrowCancel(id, amount))
                => FirstErrorOfOne(id, amount)
       /\ result'.op \in {"record_payment", "record_escrow_release"}
          => \A f \in AgentIds, t \in AgentIds, amount \in 0..MaxAmount :
                (\/ result'.op = "record_payment" /\ LedgerPayment(f, t, amount)
                 \/ result'.op = "record_escrow_release"
                    /\ LedgerEscrowRelease(f, t, amount))
                => FirstErrorOfTwo(f, t, amount)]_vars

\* record_payment between two agents that are both missing reported the payer.
C30_Witness ==
    /\ result.op = "record_payment" /\ result.raised
    /\ result.error_code = "payer_not_found"
    /\ \A a \in AgentIds : ~Exists(agents, a)

\* The fields of a ledger entry the footprint of an operation fixes.
IsEntry(entry, agent_id, delta_amount, entry_type, reference_id) ==
    /\ entry.agent_id = agent_id /\ entry.delta_amount = delta_amount
    /\ entry.entry_type = entry_type /\ entry.reference_id = reference_id

\* C31: a successful create_escrow appends exactly one entry (ESCROW_LOCK,
\* -amount), a successful release_escrow exactly two (ESCROW_RELEASE, -amount
\* for the payer, +amount for the recipient), a successful cancel_escrow
\* exactly one (ESCROW_CANCEL, +amount), all under the escrow id; the entries
\* filed under an escrow id are 1 while LOCKED, 3 after release, 2 after cancel.
C31_EscrowLedgerFootprint ==
    [][/\ (result'.op \in {"create_escrow", "release_escrow", "cancel_escrow"}
           /\ result'.success)
          => LET e == result'.id
                 escrow == escrows'[e]
                 n == Len(entries)
             IN /\ SubSeq(entries', 1, n) = entries
                /\ result'.op = "create_escrow"
                   => /\ Len(entries') = n + 1
                      /\ IsEntry(entries'[n + 1], escrow.from_agent_id, -escrow.amount,
                                 "ESCROW_LOCK", EscrowRef(e))
                /\ result'.op = "release_escrow"
                   => /\ Len(entries') = n + 2
                      /\ IsEntry(entries'[n + 1], escrow.from_agent_id, -escrow.amount,
                                 "ESCROW_RELEASE", EscrowRef(e))
                      /\ IsEntry(entries'[n + 2], escrow.to_agent_id, escrow.amount,
                                 "ESCROW_RELEASE", EscrowRef(e))
                /\ result'.op = "cancel_escrow"
                   => /\ Len(entries') = n + 1
                      /\ IsEntry(entries'[n + 1], escrow.from_agent_id, escrow.amount,
                                 "ESCROW_CANCEL", EscrowRef(e))
       /\ \A e \in DOMAIN escrows' :
             Len(get_entries_by_reference(entries', EscrowRef(e)))
                = CASE escrows'[e].status = "LOCKED" -> 1
                    [] escrows'[e].status = "RELEASED" -> 3
                    [] escrows'[e].status = "CANCELLED" -> 2]_vars

\* One escrow was released and a second one is locked: three entries under the
\* first id, one under the second.
C31_Witness ==
    /\ Len(escrows) = 2
    /\ escrows[1].status = "RELEASED" /\ escrows[2].status = "LOCKED"
    /\ Len(get_entries_by_reference(entries, EscrowRef(1))) = 3
    /\ Len(get_entries_by_reference(entries, EscrowRef(2))) = 1

\* C32: a create_escrow call that fails with PAYER_NOT_FOUND,
\* RECIPIENT_NOT_FOUND, INSUFFICIENT_FUNDS or EXECUTION_ERROR stores no escrow
\* (the escrow it returns is in no store, the stored escrows are as before),
\* appends no ledger entry and changes no wallet.
C32_FailedCreateChangesNothing ==
    [][(/\ result'.op = "create_escrow" /\ ~result'.success
        /\ result'.error_code \in {"PAYER_NOT_FOUND", "RECIPIENT_NOT_FOUND",
                                   "INSUFFICIENT_FUNDS", "EXECUTION_ERROR"})
          => /\ escrows' = escrows
             /\ result'.id \notin DOMAIN escrows'
             /\ entries' = entries
             /\ agents' = agents]_vars

\* A create_escrow was refused for lack of funds while another escrow of the
\* payer is stored and locked.
C32_Witness ==
    /\ result.op = "create_escrow" /\ ~result.success
    /\ result.error_code = "INSUFFICIENT_FUNDS"
    /\ Len(escrows) = 1 /\ escrows[1].status = "LOCKED"
    /\ agents[escrows[1].from_agent_id].hold > 0

\* The sum over a set of agents of balance + hold.
RECURSIVE TotalValue(_, _)
TotalValue(ag, ids) ==
    IF ids = {} THEN 0
    ELSE LET a == CHOOSE x \in ids : TRUE
         IN ag[a].balance + ag[a].hold + TotalValue(ag, ids \ {a})

\* C33: in every state reached by top-ups, payments and escrow operations the
\* sum over all agents of balance + hold equals the sum of the amounts of the
\* successful top-ups.
C33_ValueIsConserved ==
    TotalValue(agents, AgentIds) = TotalTopUps(entries)

\* After a payment and an escrow lock the topped-up value is split between the
\* payer's hold and the payee's balance.
C33_Witness ==
    /\ agents["A"].hold > 0 /\ agents["B"].balance > 0
    /\ \E k \in DOMAIN entries : entries[k].entry_type = "PAYMENT"
    /\ \E e \in DOMAIN escrows : escrows[e].status = "LOCKED"

\* The sum of the amounts of the LOCKED escrows among ids whose payer is agent_id.
RECURSIVE LockedTotal(_, _, _)
LockedTotal(es, agent_id, ids) ==
    IF ids = {} THEN 0
    ELSE LET e == CHOOSE x \in ids : TRUE
         IN (IF es[e].status = "LOCKED" /\ es[e].from_agent_id = agent_id
             THEN es[e].amount ELSE 0)
            + LockedTotal(es, agent_id, ids \ {e})

\* C34: through EscrowManager operations, payments and top-ups every agent's
\* wallet.hold equals the sum of the amounts of the LOCKED escrows it pays for.
C34_HoldMatchesLockedEscrows ==
    \A a \in AgentIds : agents[a].hold = LockedTotal(escrows, a, DOMAIN escrows)

\* Two escrows of one payer, one still LOCKED and one settled, with the hold
\* equal to the amount of the LOCKED one.
C34_Witness ==
    /\ Len(escrows) = 2
    /\ escrows[1].status = "CANCELLED" /\ escrows[2].status = "LOCKED"
    /\ agents[escrows[2].from_agent_id].hold = escrows[2].amount

\* C35: in every reachable state (no agent is ever deleted) a LOCKED escrow can
\* be settled: release_escrow on it succeeds, and so does cancel_escrow, the
\* payer's hold being at least the escrow amount.
C35_LockedEscrowCanBeSettled ==
    \A e \in DOMAIN escrows :
        escrows[e].status = "LOCKED"
            => /\ agents[escrows[e].from_agent_id].hold >= escrows[e].amount
               /\ release_escrow(agents, entries, escrows, e).success
               /\ release_escrow(agents, entries, escrows, e).escrows[e].status = "RELEASED"
               /\ cancel_escrow(agents, entries, escrows, e).success
               /\ cancel_escrow(agents, entries, escrows, e).escrows[e].status = "CANCELLED"

\* Two LOCKED escrows of one payer are open at once and the second one has
\* just been released.
C35_Witness ==
    /\ result.op = "release_escrow" /\ result.success /\ result.id = 2
    /\ Len(escrows) = 2 /\ escrows[1].status = "LOCKED" /\ escrows[2].status = "RELEASED"

\* C36: a release_escrow or cancel_escrow whose ledger call raises, as after
\* the payer or the recipient was deleted from the registry, returns
\* EXECUTION_ERROR, leaves the escrow LOCKED and leaves every wallet and the
\* ledger unchanged.
C36_FailedSettlementChangesNothing ==
    [][(/\ result'.op \in {"release_escrow", "cancel_escrow"}
        /\ result'.id \in DOMAIN escrows
        /\ escrows[result'.id].status = "LOCKED"
        /\ result'.op = "release_escrow"
              => record_escrow_release(agents, entries, escrows[result'.id].from_agent_id,
                                       escrows[result'.id].to_agent_id,
                                       escrows[result'.id].amount,
                                       EscrowRef(result'.id)).raised
        /\ result'.op = "cancel_escrow"
              => record_escrow_cancel(agents, entries, escrows[result'.id].from_agent_id,
                                      escrows[result'.id].amount,
                                      EscrowRef(result'.id)).raised)
          => /\ ~result'.success /\ ~result'.raised
             /\ result'.error_code = "EXECUTION_ERROR"
             /\ escrows' = escrows
             /\ escrows'[result'.id].status = "LOCKED"
             /\ agents' = agents
             /\ entries' = entries]_vars

\* A release has just failed on a LOCKED escrow whose recipient is no longer
\* registered while the payer still holds the amount.
C36_Witness ==
    /\ result.op = "release_escrow" /\ result.error_code = "EXECUTION_ERROR"
    /\ result.id \in DOMAIN escrows
    /\ escrows[result.id].status = "LOCKED"
    /\ ~Exists(agents, escrows[result.id].to_agent_id)
    /\ Exists(agents, escrows[result.id].from_agent_id)
    /\ agents[escrows[result.id].from_agent_id].hold >= escrows[result.id].amount

\* The error codes a sequential execute_payment reports.
PaymentFailureCodes ==
    {"PAYER_NOT_FOUND", "PAYEE_NOT_FOUND", "AGENT_PAUSED", "RECIPIENT_NOT_ALLOWED",
     "AMOUNT_EXCEEDS_LIMIT", "INSUFFICIENT_FUNDS"}

\* C37: in a sequential run execute_payment never returns EXECUTION_ERROR:
\* whenever both agents exist and can_pay passes, record_payment succeeds, and
\* every failure reported is one of the six validation and policy codes.
C37_SequentialPaymentNeverExecutionError ==
    /\ result.op = "execute_payment"
          => /\ result.error_code # "EXECUTION_ERROR"
             /\ ~result.success => result.error_code \in PaymentFailureCodes
    /\ \A i \in DOMAIN intents : intents[i].failure_reason # "EXECUTION_ERROR"
    /\ \A f \in AgentIds, t \in AgentIds, amount \in 1..(MaxAmount + 1) :
          (/\ Exists(agents, f) /\ Exists(agents, t)
           /\ can_pay(get_agent(agents, f), amount, t) = "None")
             => ~record_payment(agents, entries, f, t, amount, IntentRef(1)).raised

\* A payment has just been refused for lack of funds by a payer that is allowed
\* to pay and has some balance, less than the amount.
C37_Witness ==
    /\ result.op = "execute_payment" /\ ~result.success
    /\ result.error_code = "INSUFFICIENT_FUNDS"
    /\ Exists(agents, "A") /\ Exists(agents, "B")
    /\ agents["A"].balance > 0

\* What the PAYMENT entries have debited from agent_id.
RECURSIVE Debited(_, _)
Debited(en, agent_id) ==
    IF en = <<>> THEN 0
    ELSE (IF /\ Head(en).entry_type = "PAYMENT" /\ Head(en).agent_id = agent_id
             /\ Head(en).delta_amount < 0
          THEN -Head(en).delta_amount ELSE 0)
         + Debited(Tail(en), agent_id)

RECURSIVE Disbursements(_, _)
Disbursements(en, e) ==
    IF en = <<>> THEN 0
    ELSE (IF /\ Head(en).reference_id = EscrowRef(e)
             /\ \/ Head(en).entry_type = "ESCROW_CANCEL"
                \/ Head(en).entry_type = "ESCROW_RELEASE" /\ Head(en).delta_amount < 0
          THEN 1 ELSE 0)
         + Disbursements(Tail(en), e)

\* C39: when two settlement calls (release and cancel, or two releases) on one
\* LOCKED escrow interleave between the status check and the status update,
\* the payer's hold is reduced by the escrow amount at most once, also when
\* another LOCKED escrow of the payer could cover a second deduction: once the
\* calls are done the hold is what the escrows still LOCKED add up to.
C39_EscrowDisbursedOnce ==
    /\ \A e \in DOMAIN escrows : Disbursements(entries, e) <= 1
    /\ (\A t \in Threads : calls[t].pc = "done")
          => \A a \in AgentIds : agents[a].hold = LockedTotal(escrows, a, DOMAIN escrows)

====
